---- MODULE Spec2Model ----
(***************************************************************************)
(* Model of the chart ingestion and question-synthesis pipeline of the     *)
(* rancher-questions-generator backend (backend/pkg/helm/processor.go).    *)
(***************************************************************************)
EXTENDS Integers, Sequences, FiniteSets, TLC

(***************************************************************************)
(* Bounds of the model.                                                    *)
(***************************************************************************)
\* longest existing question list fed to mergeQuestions
MaxExisting == 2
\* longest defaults question list fed to mergeQuestions
MaxDefaults == 2
\* deepest nesting of mappings in a configuration tree
MaxDepth == 3
\* longest key path handed to hasNestedKey
MaxKeys == 3
\* most headers in an archive given to extractTarGz alone
MaxEntries == 2
\* last reading of the clock
MaxClock == 2
\* most files in a directory tree handed to findFile alone
MaxFiles == 3
\* most ProcessChart invocations running at once
MaxProcs == 2
\* most requests in flight at once
MaxSlots == 2
\* most requests started in a run
MaxCalls == 2
\* longest question list marshalled
MaxQuestions == 2

(***************************************************************************)
(* models.Question / models.Questions                                      *)
(***************************************************************************)
\* Default is an interface{}: nil or a value
NilDefault == [isNil |-> TRUE, kind |-> "nil", val |-> ""]

\* a value of the dynamic type kind, val its text
TypedDefault(kind, val) == [isNil |-> FALSE, kind |-> kind, val |-> val]

StrDefault(s) == TypedDefault("string", s)

Question(variable, label, description, type, required, default, group, options) ==
    [Variable |-> variable, Label |-> label, Description |-> description,
     Type |-> type, Required |-> required, Default |-> default,
     Group |-> group, Options |-> options, ShowIf |-> "", SubQuestions |-> <<>>]

\* models.Questions{Questions: qs}: the struct has the single field Questions
Questions(qs) == [Questions |-> qs]

(***************************************************************************)
(* Configuration trees: map[string]interface{}.  A value is a scalar of    *)
(* some runtime kind or a nested mapping.                                  *)
(***************************************************************************)
EmptyMap == [k \in {} |-> k]

Scalar(kind, lit) == [kind |-> kind, lit |-> lit, m |-> EmptyMap]

MapValue(m) == [kind |-> "map", lit |-> "", m |-> m]

(***************************************************************************)
(* hasNestedKey: walks the keys from the root mapping.                     *)
(***************************************************************************)
RECURSIVE hasNestedKeyFrom(_, _, _)
hasNestedKeyFrom(current, keys, i) ==
    IF i > Len(keys) THEN TRUE
    ELSE IF keys[i] \in DOMAIN current
         THEN IF current[keys[i]].kind = "map"
              THEN hasNestedKeyFrom(current[keys[i]].m, keys, i + 1)
              ELSE Len(keys) = 1
         ELSE FALSE

hasNestedKey(data, keys) == hasNestedKeyFrom(data, keys, 1)

(***************************************************************************)
(* generateDefaultQuestions                                                *)
(***************************************************************************)
NameQuestion ==
    Question("name", "Application Name", "Name for the application",
             "string", TRUE, NilDefault, "General", <<>>)

NamespaceQuestion ==
    Question("namespace", "Namespace", "Kubernetes namespace for the application",
             "string", TRUE, NilDefault, "General", <<>>)

ServiceTypeQuestion ==
    Question("service.type", "Service Type", "Kubernetes service type",
             "enum", FALSE, StrDefault("ClusterIP"), "Networking",
             <<"ClusterIP", "NodePort", "LoadBalancer">>)

StorageClassQuestion ==
    Question("persistence.storageClass", "Storage Class",
             "Storage class for persistent volumes",
             "string", FALSE, NilDefault, "Storage", <<>>)

\* a plausible slip: the pattern questions put in front of the mandatory two
generateDefaultQuestionsPatternsFirst(values) ==
    Questions(
        (IF hasNestedKey(values, <<"service", "type">>)
            THEN <<ServiceTypeQuestion>> ELSE <<>>)
        \o (IF hasNestedKey(values, <<"persistence", "storageClass">>)
            THEN <<StorageClassQuestion>> ELSE <<>>)
        \o <<NameQuestion, NamespaceQuestion>>)

generateDefaultQuestions(values) ==
    Questions(
        <<NameQuestion, NamespaceQuestion>>
        \o (IF hasNestedKey(values, <<"service", "type">>)
            THEN <<ServiceTypeQuestion>> ELSE <<>>)
        \o (IF hasNestedKey(values, <<"persistence", "storageClass">>)
            THEN <<StorageClassQuestion>> ELSE <<>>))

(***************************************************************************)
(* mergeQuestions                                                          *)
(***************************************************************************)
\* the keys of existingMap after the first loop
existingMapKeys(existing) ==
    {existing.Questions[i].Variable : i \in 1..Len(existing.Questions)}

\* the second loop: append every default whose variable is no key of existingMap
RECURSIVE appendMissing(_, _, _, _)
appendMissing(merged, keySet, defs, i) ==
    IF i > Len(defs) THEN merged
    ELSE IF defs[i].Variable \notin keySet
         THEN appendMissing(Append(merged, defs[i]), keySet, defs, i + 1)
         ELSE appendMissing(merged, keySet, defs, i + 1)

\* a plausible slip: a default with the variable of an existing question
\* overwrites that question instead of being dropped
RECURSIVE overrideOrAppend(_, _, _)
overrideOrAppend(merged, defs, i) ==
    IF i > Len(defs) THEN merged
    ELSE LET hit == {j \in 1..Len(merged) : merged[j].Variable = defs[i].Variable}
         IN IF hit = {}
            THEN overrideOrAppend(Append(merged, defs[i]), defs, i + 1)
            ELSE overrideOrAppend(
                    [j \in 1..Len(merged) |-> IF j \in hit THEN defs[i] ELSE merged[j]],
                    defs, i + 1)

mergeQuestionsOverriding(existing, defaults) ==
    Questions(overrideOrAppend(existing.Questions, defaults.Questions, 1))

\* a plausible slip: the existingMap lookup left out, every default appended
mergeQuestionsNoLookup(existing, defaults) ==
    Questions(existing.Questions \o defaults.Questions)

\* a plausible slip: existingMap filled from the first existing question only
mergeQuestionsFirstKeyOnly(existing, defaults) ==
    Questions(appendMissing(existing.Questions,
                            {existing.Questions[i].Variable :
                                i \in 1..Len(existing.Questions) \cap {1}},
                            defaults.Questions, 1))

mergeQuestions(existing, defaults) ==
    Questions(appendMissing(existing.Questions, existingMapKeys(existing),
                            defaults.Questions, 1))

(***************************************************************************)
(* Paths and the file system.  A path is the sequence of its components    *)
(* from the root; a name inside an archive is the sequence obtained by     *)
(* splitting it at "/" (a leading "/" gives a first component "").         *)
(***************************************************************************)
Parent(p) == SubSeq(p, 1, Len(p) - 1)

IsPrefix(a, b) == Len(a) <= Len(b) /\ SubSeq(b, 1, Len(a)) = a

\* filepath.Clean of a rooted path
RECURSIVE CleanFrom(_, _, _)
CleanFrom(stack, comps, i) ==
    IF i > Len(comps) THEN stack
    ELSE IF comps[i] \in {"", "."} THEN CleanFrom(stack, comps, i + 1)
    ELSE IF comps[i] = ".."
         THEN CleanFrom(IF stack = <<>> THEN <<>> ELSE Parent(stack), comps, i + 1)
         ELSE CleanFrom(Append(stack, comps[i]), comps, i + 1)

Clean(p) == CleanFrom(<<>>, p, 1)

\* filepath.Join(dir, name) = Clean(dir + "/" + name)
Join(dir, name) == Clean(dir \o name)

\* a plausible slip: the destination check left out
underDestUnchecked(target, dest) == TRUE

\* strings.HasPrefix(target, filepath.Clean(dest)+string(os.PathSeparator))
underDest(target, dest) ==
    /\ Clean(dest) # <<>>
    /\ Len(target) > Len(Clean(dest))
    /\ SubSeq(target, 1, Len(Clean(dest))) = Clean(dest)

Dir == [kind |-> "dir", content |-> ""]

File(content) == [kind |-> "file", content |-> content]

Exists(fs, p) == p \in DOMAIN fs

IsDir(fs, p) == Exists(fs, p) /\ fs[p].kind = "dir"

Prefixes(p) == {SubSeq(p, 1, n) : n \in 0..Len(p)}

\* os.MkdirAll(path): creates path and every missing ancestor, unless some
\* prefix of path is a regular file (the error is ignored by the callers)
MkdirAllFails(fs, path) == \E q \in Prefixes(path) : Exists(fs, q) /\ ~IsDir(fs, q)

MkdirAll(fs, path) ==
    IF MkdirAllFails(fs, path) THEN fs
    ELSE [q \in DOMAIN fs \cup Prefixes(path) |-> IF Exists(fs, q) THEN fs[q] ELSE Dir]

\* os.OpenFile(target, O_CREATE|O_WRONLY, mode) fails when the parent is no
\* directory or the target is a directory
OpenFileFails(fs, target) == ~IsDir(fs, Parent(target)) \/ IsDir(fs, target)

\* io.Copy(f, tr) into the opened file: the file is not truncated first, so
\* writing over a file with other content leaves a mix of the two
WriteFile(fs, target, content) ==
    [q \in DOMAIN fs \cup {target} |->
        IF q # target THEN fs[q]
        ELSE IF Exists(fs, target) /\ fs[target].content # content
             THEN File("overlaid") ELSE File(content)]

\* os.RemoveAll(path): path and everything below it
RemoveAll(fs, path) == [q \in {r \in DOMAIN fs : ~IsPrefix(path, r)} |-> fs[q]]

\* os.Remove(path) of a file
Remove(fs, path) == [q \in DOMAIN fs \ {path} |-> fs[q]]

(***************************************************************************)
(* extractTarGz: one iteration of the loop over the archive's headers.     *)
(* header = [Name, Typeflag, content]; copyFails says that reading the     *)
(* entry's body from the stream fails.  The result is the new file system  *)
(* and whether the function returns an error from this iteration.          *)
(***************************************************************************)
extractEntry(fs, dest, header, copyFails) ==
    LET target == Join(dest, header.Name) IN
    IF ~underDest(target, dest) THEN [fs |-> fs, err |-> FALSE]
    ELSE IF header.Typeflag = "dir" THEN [fs |-> MkdirAll(fs, target), err |-> FALSE]
    ELSE IF header.Typeflag = "reg"
         THEN LET fs1 == MkdirAll(fs, Parent(target)) IN
              IF OpenFileFails(fs1, target) THEN [fs |-> fs1, err |-> TRUE]
              ELSE [fs |-> WriteFile(fs1, target, header.content), err |-> copyFails]
    ELSE [fs |-> fs, err |-> FALSE]

\* the whole loop from header i on: [fs, err] when the stream is exhausted or
\* the function returns early.  ending says how the stream ends: "eof", a
\* framing error after the last header ("badframe"), or the last body cut
\* short ("truncated").
RECURSIVE extractFrom(_, _, _, _, _)
extractFrom(fs, dest, entries, ending, i) ==
    IF i > Len(entries) THEN [fs |-> fs, err |-> ending # "eof"]
    ELSE LET r == extractEntry(fs, dest, entries[i],
                               i = Len(entries) /\ ending = "truncated")
         IN IF r.err THEN r ELSE extractFrom(r.fs, dest, entries, ending, i + 1)

\* extractTarGz(src, dest) as a whole; archive = [src, entries, ending] where
\* src is "missing" (os.Open fails), "notgzip" (gzip.NewReader fails) or "ok"
extractTarGz(fs, archive, dest) ==
    IF archive.src # "ok" THEN [fs |-> fs, err |-> TRUE]
    ELSE extractFrom(fs, dest, archive.entries, archive.ending, 1)

(***************************************************************************)
(* findFile: filepath.Walk visits a directory's entries in lexical order;  *)
(* the callback records every entry named filename and answers SkipDir,    *)
(* which ends the walk of the directory holding the entry (or skips the    *)
(* entry when it is a directory) and lets the walk go on above it.         *)
(***************************************************************************)
\* the names of the model in lexical (byte) order
NameOrder ==
    <<"Chart.yaml", "chart", "etc", "evil", "passwd", "questions.yaml",
      "questions.yml", "sub", "values.yaml">>

Rank(name) == CHOOSE r \in 1..Len(NameOrder) : NameOrder[r] = name

Last(p) == p[Len(p)]

Children(fs, dir) == {q \in DOMAIN fs : Len(q) = Len(dir) + 1 /\ Parent(q) = dir}

\* the result "" of findFile: no path
NoPath == <<"">>

RECURSIVE SortedByName(_)
SortedByName(paths) ==
    IF paths = {} THEN <<>>
    ELSE LET first == CHOOSE q \in paths :
                         \A r \in paths : Rank(Last(q)) <= Rank(Last(r))
         IN <<first>> \o SortedByName(paths \ {first})

RECURSIVE walk(_, _, _, _)
RECURSIVE walkNames(_, _, _, _, _)
\* [result, skip]: the callback's result variable and whether SkipDir is returned
walk(fs, path, filename, result) ==
    IF Last(path) = filename THEN [result |-> path, skip |-> TRUE]
    ELSE IF ~IsDir(fs, path) THEN [result |-> result, skip |-> FALSE]
    ELSE walkNames(fs, SortedByName(Children(fs, path)), 1, filename, result)

walkNames(fs, names, i, filename, result) ==
    IF i > Len(names) THEN [result |-> result, skip |-> FALSE]
    ELSE LET r == walk(fs, names[i], filename, result)
         IN IF r.skip /\ ~IsDir(fs, names[i])
            THEN [result |-> r.result, skip |-> TRUE]
            ELSE walkNames(fs, names, i + 1, filename, r.result)

findFile(fs, dir, filename) ==
    IF ~Exists(fs, dir) THEN NoPath
    ELSE walk(fs, dir, filename, NoPath).result

(***************************************************************************)
(* The documents of the model, by content, and what yaml.Unmarshal makes   *)
(* of them.                                                                *)
(***************************************************************************)
\* generateMockValues(chartName), default case (the chart names of the model
\* are none of ollama, prometheus, grafana)
MockValuesTree(chartName) ==
    [k \in {"replicaCount", "image", "service", "resources", "persistence",
            "autoscaling", "ingress"} |->
        CASE k = "replicaCount" -> Scalar("number", "3")
          [] k = "image" -> MapValue(
                [j \in {"repository", "tag", "pullPolicy"} |->
                    CASE j = "repository" -> Scalar("string", chartName)
                      [] j = "tag" -> Scalar("string", "latest")
                      [] OTHER -> Scalar("string", "IfNotPresent")])
          [] k = "service" -> MapValue(
                [j \in {"type", "port"} |->
                    IF j = "type" THEN Scalar("string", "LoadBalancer")
                    ELSE Scalar("number", "8080")])
          [] k = "resources" -> MapValue(
                [j \in {"requests", "limits"} |->
                    MapValue([l \in {"memory", "cpu"} |-> Scalar("string", "")])])
          [] k = "persistence" -> MapValue(
                [j \in {"enabled", "size", "storageClass"} |->
                    CASE j = "enabled" -> Scalar("bool", "true")
                      [] j = "size" -> Scalar("string", "10Gi")
                      [] OTHER -> Scalar("string", "")])
          [] k = "autoscaling" -> MapValue(
                [j \in {"enabled", "minReplicas", "maxReplicas",
                        "targetCPUUtilizationPercentage"} |->
                    IF j = "enabled" THEN Scalar("bool", "false")
                    ELSE Scalar("number", "")])
          [] OTHER -> MapValue(
                [j \in {"enabled", "className", "host", "tls"} |->
                    CASE j = "enabled" -> Scalar("bool", "false")
                      [] j = "className" -> Scalar("string", "nginx")
                      [] j = "host" -> Scalar("string", "")
                      [] OTHER -> MapValue(
                            [l \in {"enabled", "secretName"} |->
                                IF l = "enabled" THEN Scalar("bool", "false")
                                ELSE Scalar("string", "")])])]

\* the content written by createMockOCIChart for a chart name
MockValuesDoc(chartName) ==
    CASE chartName = "" -> "mock-values:"
      [] chartName = "x" -> "mock-values:x"

\* documents a chart archive may carry
ValuesDocs == {"values:service-string", "values:service-map", "values:malformed"}

QuestionsDocs == {"questions:author", "questions:malformed"}

\* yaml.Unmarshal(data, &values): ok says the document is a well-formed mapping
UnmarshalValues(doc) ==
    CASE doc = "values:service-string" ->
            [ok |-> TRUE,
             tree |-> [k \in {"service"} |->
                          MapValue([j \in {"type"} |-> Scalar("string", "LoadBalancer")])]]
      [] doc = "values:service-map" ->
            [ok |-> TRUE,
             tree |-> [k \in {"service"} |->
                          MapValue([j \in {"type"} |->
                              MapValue([l \in {"deep"} |-> Scalar("string", "x")])])]]
      [] doc = "mock-values:" -> [ok |-> TRUE, tree |-> MockValuesTree("")]
      [] doc = "mock-values:x" -> [ok |-> TRUE, tree |-> MockValuesTree("x")]
      [] OTHER -> [ok |-> FALSE, tree |-> EmptyMap]

\* yaml.Unmarshal(data, &questions)
UnmarshalQuestions(doc) ==
    CASE doc = "questions:author" ->
            [ok |-> TRUE,
             questions |-> Questions(
                <<Question("service.type", "Service", "", "string", FALSE,
                           StrDefault("NodePort"), "Network", <<>>),
                  Question("replicaCount", "Replicas", "", "int", FALSE,
                           NilDefault, "", <<>>)>>)]
      [] OTHER -> [ok |-> FALSE, questions |-> Questions(<<>>)]

\* os.ReadFile(path) fails on a directory
ReadFileFails(fs, path) == ~Exists(fs, path) \/ IsDir(fs, path)

\* a plausible slip: a missing values.yaml reported as an error, the way
\* parseQuestions reports a missing questions.yaml
parseValuesMissingFails(fs, chartDir) ==
    LET valuesPath == findFile(fs, chartDir, "values.yaml") IN
    IF valuesPath = NoPath THEN [values |-> EmptyMap, err |-> "read"]
    ELSE IF ReadFileFails(fs, valuesPath) THEN [values |-> EmptyMap, err |-> "read"]
    ELSE IF ~UnmarshalValues(fs[valuesPath].content).ok
         THEN [values |-> EmptyMap, err |-> "yaml"]
         ELSE [values |-> UnmarshalValues(fs[valuesPath].content).tree, err |-> "none"]

\* parseValues(chartDir): [values, err]
parseValues(fs, chartDir) ==
    LET valuesPath == findFile(fs, chartDir, "values.yaml") IN
    IF valuesPath = NoPath THEN [values |-> EmptyMap, err |-> "none"]
    ELSE IF ReadFileFails(fs, valuesPath) THEN [values |-> EmptyMap, err |-> "read"]
    ELSE IF ~UnmarshalValues(fs[valuesPath].content).ok
         THEN [values |-> EmptyMap, err |-> "yaml"]
         ELSE [values |-> UnmarshalValues(fs[valuesPath].content).tree, err |-> "none"]

\* parseQuestions(chartDir): [questions, err]
parseQuestions(fs, chartDir) ==
    LET first == findFile(fs, chartDir, "questions.yaml")
        questionsPath == IF first = NoPath
                         THEN findFile(fs, chartDir, "questions.yml") ELSE first
    IN
    IF questionsPath = NoPath THEN [questions |-> Questions(<<>>), err |-> "notfound"]
    ELSE IF ReadFileFails(fs, questionsPath)
         THEN [questions |-> Questions(<<>>), err |-> "read"]
    ELSE IF ~UnmarshalQuestions(fs[questionsPath].content).ok
         THEN [questions |-> Questions(<<>>), err |-> "yaml"]
         ELSE [questions |-> UnmarshalQuestions(fs[questionsPath].content).questions,
               err |-> "none"]

\* Processor.tempDir = "/tmp/helm-charts"
TempDir == <<"tmp", "helm-charts">>

EmptyFS == [q \in {} |-> Dir]

(***************************************************************************)
(* Chart references.  A reference is the sequence of its "/"-separated     *)
(* parts, each part the sequence of its ":"-separated pieces, so           *)
(* "oci://host/charts/x:1.0.0" is                                          *)
(* <<"oci","">>, <<"">>, <<"host">>, <<"charts">>, <<"x","1.0.0">>.        *)
(***************************************************************************)
EmptyRef == << <<"">> >>

NotAURLRef == << <<"not-a-url">> >>

FileRef == << <<"file", "">>, <<"">>, <<"">>, <<"etc">>, <<"passwd">> >>

BareOCIRef == << <<"oci", "">>, <<"">>, <<"">> >>

OCIRef == << <<"oci", "">>, <<"">>, <<"host">>, <<"charts">>, <<"x", "1.0.0">> >>

\* oci://other/x: the same chart name on another host, without a version
OCIRefOther == << <<"oci", "">>, <<"">>, <<"other">>, <<"x">> >>

HTTPSRef == << <<"https", "">>, <<"">>, <<"host">>, <<"chart.tgz">> >>

\* strings.HasPrefix(chartURL, "oci://")
hasOCIPrefix(chartURL) ==
    /\ Len(chartURL) >= 3
    /\ chartURL[1] = <<"oci", "">>
    /\ chartURL[2] = <<"">>

\* http.Get sends a request only for an http or https URL with a host; for
\* any other string it returns an error without touching the network
httpGetSends(chartURL) ==
    /\ Len(chartURL[1]) > 1
    /\ chartURL[1][1] \in {"http", "https"}
    /\ Len(chartURL) >= 3
    /\ chartURL[2] = <<"">>
    /\ chartURL[3] # <<"">>

\* a plausible slip: the name taken from the part right after "oci:", the
\* empty one in front of the host
chartNameOfFirstPart(ociURL) == ociURL[2][1]

\* createMockOCIChart: the last "/"-separated part, cut at the first ":"
chartNameOf(ociURL) == ociURL[Len(ociURL)][1]

\* fmt.Sprintf("<prefix>-%d", time.Now().UnixNano()) for the clock readings
\* of the model
ExtractedName(now) ==
    <<"extracted-1", "extracted-2", "extracted-3", "extracted-4", "extracted-5">>[now]

OCIExtractedName(now) ==
    <<"oci-extracted-1", "oci-extracted-2", "oci-extracted-3", "oci-extracted-4",
      "oci-extracted-5">>[now]

MockOCIName(chartName, now) ==
    CASE chartName = "" ->
            <<"mock-oci--1", "mock-oci--2", "mock-oci--3", "mock-oci--4",
              "mock-oci--5">>[now]
      [] chartName = "x" ->
            <<"mock-oci-x-1", "mock-oci-x-2", "mock-oci-x-3", "mock-oci-x-4",
              "mock-oci-x-5">>[now]

\* os.CreateTemp(p.tempDir, "chart-*.tgz"): a name that does not exist yet
TempFileNames == {"chart-101.tgz", "chart-102.tgz", "chart-103.tgz"}

CreateTemp(fs) ==
    Append(TempDir, CHOOSE n \in TempFileNames : ~Exists(fs, Append(TempDir, n)))

\* os.WriteFile(path, data, perm): creates or truncates
OsWriteFile(fs, path, content) ==
    [q \in DOMAIN fs \cup {path} |-> IF q = path THEN File(content) ELSE fs[q]]

(***************************************************************************)
(* What a chart server or registry may deliver.                            *)
(***************************************************************************)
ChartEntries(v, q) ==
    <<[Name |-> <<"chart">>, Typeflag |-> "dir", content |-> ""]>>
    \o (CASE v = "none" -> <<>>
          [] v = "dir" -> <<[Name |-> <<"chart", "values.yaml">>,
                             Typeflag |-> "dir", content |-> ""]>>
          [] OTHER -> <<[Name |-> <<"chart", "values.yaml">>,
                         Typeflag |-> "reg", content |-> v]>>)
    \o (IF q = "none" THEN <<>>
        ELSE <<[Name |-> <<"chart", "questions.yaml">>,
                Typeflag |-> "reg", content |-> q]>>)

\* well-formed chart archives
Charts ==
    {[src |-> "ok", entries |-> ChartEntries(v, q), ending |-> "eof"] :
        v \in ValuesDocs \cup {"none", "dir"}, q \in QuestionsDocs \cup {"none"}}

\* the bodies an HTTP 200 response may carry: a chart, a chart cut short, an
\* archive without entries, or something that is no gzip stream
Bodies ==
    Charts
    \cup {[c EXCEPT !.ending = "truncated"] : c \in Charts}
    \cup {[src |-> "ok", entries |-> <<>>, ending |-> "eof"],
          [src |-> "notgzip", entries |-> <<>>, ending |-> "eof"]}

(***************************************************************************)
(* downloadAndExtract and the functions it calls.  Each yields the set of  *)
(* results the environment allows: [dir, err, fs, fetches, toolRuns].      *)
(***************************************************************************)
Outcome(dir, err, fs, fetches, toolRuns) ==
    [dir |-> dir, err |-> err, fs |-> fs, fetches |-> fetches, toolRuns |-> toolRuns]

\* helm pull can only succeed for a reference that names a registry host
helmCanPull(ociURL) == Len(ociURL) >= 4 /\ ociURL[3] # <<"">>

\* downloadFromOCIWithHelm: helm pull fails, or untars a chart below extractDir
downloadFromOCIWithHelm(fs, ociURL, now) ==
    LET extractDir == Append(TempDir, OCIExtractedName(now))
        fs1 == MkdirAll(fs, extractDir)
    IN {Outcome(NoPath, "helm", fs1, 0, 1)}
       \cup {Outcome(extractDir, "none",
                     extractFrom(fs1, extractDir, c.entries, "eof", 1).fs, 0, 1) :
                c \in IF helmCanPull(ociURL) THEN Charts ELSE {}}

\* createMockOCIChart: os.WriteFile may fail
createMockOCIChart(fs, ociURL, now) ==
    LET chartName == chartNameOf(ociURL)
        extractDir == Append(TempDir, MockOCIName(chartName, now))
        fs1 == MkdirAll(fs, extractDir)
    IN {Outcome(NoPath, "mockwrite", fs1, 0, 0),
        Outcome(extractDir, "none",
                OsWriteFile(fs1, Append(extractDir, "values.yaml"),
                            MockValuesDoc(chartName)), 0, 0)}

downloadFromOCI(fs, ociURL, helm, now) ==
    IF helm THEN downloadFromOCIWithHelm(fs, ociURL, now)
    ELSE createMockOCIChart(fs, ociURL, now)

\* the HTTP branch after a 200 response with the given body: the temporary
\* file is written, extracted and removed (deferred os.Remove)
extractDownloaded(fs, body, now) ==
    LET tempFile == CreateTemp(fs)
        fs1 == OsWriteFile(fs, tempFile, "tgz")
        extractDir == Append(TempDir, ExtractedName(now))
        r == extractTarGz(fs1, body, extractDir)
    IN IF r.err THEN Outcome(NoPath, "extract", Remove(r.fs, tempFile), 1, 0)
       ELSE Outcome(extractDir, "none", Remove(r.fs, tempFile), 1, 0)

downloadAndExtract(fs0, chartURL, helm, now) ==
    LET fs == MkdirAll(fs0, TempDir) IN
    IF hasOCIPrefix(chartURL) THEN downloadFromOCI(fs, chartURL, helm, now)
    ELSE IF ~httpGetSends(chartURL) THEN {Outcome(NoPath, "get", fs, 0, 0)}
    ELSE {Outcome(NoPath, "get", fs, 1, 0),          \* transport failure
          Outcome(NoPath, "status", fs, 1, 0),       \* resp.StatusCode != 200
          Outcome(NoPath, "createtemp", fs, 1, 0),   \* os.CreateTemp fails
          Outcome(NoPath, "copy", fs, 1, 0)}         \* io.Copy fails, file removed
         \cup {extractDownloaded(fs, body, now) : body \in Bodies}

(***************************************************************************)
(* The text of the errors, err.Error(), as the sequence of its parts, each  *)
(* of one kind: "text", a literal of the source; "reference", the chart    *)
(* reference as supplied; "path", a local path; "status", the status line  *)
(* of the response; "output", the output of helm; "cause", the text of an  *)
(* error of the operating system or a library.                             *)
(***************************************************************************)
Part(kind, val, ref, path) == [kind |-> kind, val |-> val, ref |-> ref, path |-> path]

\* the error downloadAndExtract returns, by the place that produced it
downloadErrorText(err, chartURL, now) ==
    LET lit(s) == Part("text", s, <<>>, <<>>)
        cause(s) == Part("cause", s, <<>>, <<>>)
        at(p) == Part("path", "", <<>>, p)
    IN  CASE err = "get" ->
                \* *url.Error: Get "<url>": <cause>
                <<lit("Get "), Part("reference", "", chartURL, <<>>), lit(": "),
                  cause("transport")>>
          [] err = "status" ->
                <<lit("failed to download chart: "),
                  Part("status", "resp.Status", <<>>, <<>>)>>
          [] err = "createtemp" ->
                \* *fs.PathError: open <path>: <cause>
                <<lit("open "), at(Append(TempDir, "chart-*.tgz")), lit(": "),
                  cause("errno")>>
          [] err = "copy" -> <<cause("io.Copy")>>
          [] err = "extract" -> <<cause("gzip, tar or file error")>>
          [] err = "helm" ->
                <<lit("failed to pull OCI chart: "), cause("exit status"),
                  lit(", output: "), Part("output", "string(output)", <<>>, <<>>)>>
          [] err = "mockwrite" ->
                <<lit("failed to create mock values.yaml: "), lit("open "),
                  at(TempDir \o <<MockOCIName(chartNameOf(chartURL), now),
                                  "values.yaml">>),
                  lit(": "), cause("errno")>>

\* the error parseValues returns
valuesErrorText(err, valuesPath) ==
    IF err = "read"
    THEN <<Part("text", "read ", <<>>, <<>>), Part("path", "", <<>>, valuesPath),
           Part("text", ": ", <<>>, <<>>), Part("cause", "errno", <<>>, <<>>)>>
    ELSE <<Part("cause", "yaml", <<>>, <<>>)>>

\* fmt.Errorf("<prefix>: %w", err)
wrapError(prefix, text) ==
    <<Part("text", prefix, <<>>, <<>>), Part("text", ": ", <<>>, <<>>)>> \o text

(***************************************************************************)
(* ProcessChart after a successful resolution.                             *)
(***************************************************************************)
\* a plausible slip: the deferred removal left out
removeChartDirSkipped(fs, chartDir) == fs

\* defer os.RemoveAll(chartDir)
removeChartDir(fs, chartDir) == RemoveAll(fs, chartDir)

\* a plausible slip: the arguments of mergeQuestions swapped
finalQuestionsSwapped(values, q) ==
    IF q.err # "none" THEN generateDefaultQuestions(values)
    ELSE mergeQuestions(generateDefaultQuestions(values), q.questions)

\* the questions ProcessChart returns, q being the result of parseQuestions
finalQuestions(values, q) ==
    IF q.err # "none" THEN generateDefaultQuestions(values)
    ELSE mergeQuestions(q.questions, generateDefaultQuestions(values))

\* the values ProcessChart returns: nil on error
NilValues == [isNil |-> TRUE, m |-> EmptyMap]

Values(m) == [isNil |-> FALSE, m |-> m]

(***************************************************************************)
(* State.                                                                  *)
(***************************************************************************)
VARIABLES
    \* mergeQuestions: its two arguments, its return value, the return value
    \* of a second call on that result, and its position
    existing, defaults, merged, remerged, mpc,
    \* hasNestedKey / generateDefaultQuestions: the tree, the key path, the
    \* two return values, and the position
    values, keys, found, generated, spc,
    \* extractTarGz: the file system, the destination, the archive, the index
    \* of the next header, the paths each iteration created or wrote (history),
    \* the error returned, and the position
    xfs, xdest, xarchive, xi, xlog, xerr, xpc,
    \* ProcessChart: the running invocations, each one's locals and position
    \* (with what it observed and did, as history), the file system below
    \* /tmp, the clock read by time.Now(), and whether exec.LookPath finds helm
    procs, frame, fs, clock, helm,
    \* findFile: the file system, the directory walked, the name looked for,
    \* the path returned, and the position
    wfs, wdir, wname, wresult, wpc,
    \* session.Manager and the handlers: the Session objects ever allocated,
    \* the keys of Manager.sessions, the state of Manager.mutex, the clock read
    \* by time.Now(), each request's kind, locals and position, and as history
    \* the request answered last, the ids CreateSession returned, the ids
    \* DeleteSession removed, and the number of requests started
    heap, sessions, mutex, now, req, last, created, deleted, calls,
    \* RepositoryManager: the catalog, the credentials cache, the state of its
    \* mutex, each call's arguments and position, and as history the call
    \* that returned last and the number of calls started
    repositories, authCache, rmutex, rreq, rlast, rcalls,
    \* yaml.Marshal / yaml.Unmarshal: the question set, the document written,
    \* the question set read back, and the position
    yq, ydoc, yback, ypc

mergeVars == <<existing, defaults, merged, remerged, mpc>>

synthVars == <<values, keys, found, generated, spc>>

extractVars == <<xfs, xdest, xarchive, xi, xlog, xerr, xpc>>

pipelineVars == <<procs, frame, fs, clock, helm>>

findVars == <<wfs, wdir, wname, wresult, wpc>>

sessionVars == <<heap, sessions, mutex, now, req, last, created, deleted, calls>>

repoVars == <<repositories, authCache, rmutex, rreq, rlast, rcalls>>

yamlVars == <<yq, ydoc, yback, ypc>>

vars == <<mergeVars, synthVars, extractVars, pipelineVars, findVars, sessionVars,
          repoVars, yamlVars>>

\* what each part leaves alone: the variables of the other parts
notMergeVars == <<synthVars, extractVars, pipelineVars, findVars, sessionVars,
    repoVars, yamlVars>>

notSynthVars == <<mergeVars, extractVars, pipelineVars, findVars, sessionVars,
    repoVars, yamlVars>>

notExtractVars == <<mergeVars, synthVars, pipelineVars, findVars, sessionVars,
    repoVars, yamlVars>>

notPipelineVars == <<mergeVars, synthVars, extractVars, findVars, sessionVars,
    repoVars, yamlVars>>

notFindVars == <<mergeVars, synthVars, extractVars, pipelineVars, sessionVars,
    repoVars, yamlVars>>

notSessionVars == <<mergeVars, synthVars, extractVars, pipelineVars, findVars,
    repoVars, yamlVars>>

notYAMLVars == <<mergeVars, synthVars, extractVars, pipelineVars, findVars,
    sessionVars, repoVars>>

notRepoVars == <<mergeVars, synthVars, extractVars, pipelineVars, findVars,
    sessionVars, yamlVars>>

SeqsUpTo(S, n) == UNION {[1..k -> S] : k \in 0..n}

(***************************************************************************)
(* Inputs of mergeQuestions: questions a chart author may have written in  *)
(* questions.yaml and questions generateDefaultQuestions emits.            *)
(***************************************************************************)
AuthorQuestions ==
    {Question("name", "Release name", "", "string", FALSE, NilDefault, "", <<>>),
     Question("service.type", "Service", "", "string", FALSE,
              StrDefault("NodePort"), "Network", <<>>),
     Question("replicaCount", "Replicas", "", "int", FALSE, NilDefault, "", <<>>)}

QuestionUniverse == AuthorQuestions \cup {NameQuestion, ServiceTypeQuestion}

(***************************************************************************)
(* Inputs of hasNestedKey and generateDefaultQuestions.                    *)
(***************************************************************************)
Scalars == {Scalar("string", "LoadBalancer"), Scalar("string", ""),
            Scalar("number", "8080")}

LevelKeys(d) ==
    IF d = 1 THEN {"service", "persistence"}
    ELSE IF d = 2 THEN {"type", "storageClass"}
    ELSE {"deep"}

RECURSIVE MapsAt(_)
MapsAt(d) ==
    LET vals == Scalars \cup
                (IF d < MaxDepth THEN {MapValue(m) : m \in MapsAt(d + 1)} ELSE {})
    IN UNION {[D -> vals] : D \in SUBSET LevelKeys(d)}

Trees == MapsAt(1)

RECURSIVE PathsFrom(_)
PathsFrom(d) ==
    IF d > MaxKeys THEN {<<>>}
    ELSE {<<>>} \cup {<<k>> \o p : k \in LevelKeys(d) \cup {"missing"},
                                   p \in PathsFrom(d + 1)}

KeyPaths == PathsFrom(1) \ {<<>>}

(***************************************************************************)
(* Idle values of the parts a specification does not exercise.             *)
(***************************************************************************)
MergeIdle ==
    /\ existing = Questions(<<>>)
    /\ defaults = Questions(<<>>)
    /\ merged = Questions(<<>>)
    /\ remerged = Questions(<<>>)
    /\ mpc = "idle"

SynthIdle ==
    /\ values = EmptyMap
    /\ keys = <<>>
    /\ found = FALSE
    /\ generated = Questions(<<>>)
    /\ spc = "idle"

ExtractIdle ==
    /\ xfs = EmptyFS
    /\ xdest = <<>>
    /\ xarchive = [src |-> "missing", entries |-> <<>>, ending |-> "eof"]
    /\ xi = 0
    /\ xlog = <<>>
    /\ xerr = FALSE
    /\ xpc = "idle"

PipelineIdle ==
    /\ procs = {}
    /\ frame = EmptyMap
    /\ fs = EmptyFS
    /\ clock = 0
    /\ helm = FALSE

FindIdle ==
    /\ wfs = EmptyFS
    /\ wdir = <<>>
    /\ wname = ""
    /\ wresult = NoPath
    /\ wpc = "idle"

SessionIdle ==
    /\ heap = <<>>
    /\ sessions = {}
    /\ mutex = [w |-> 0, r |-> {}]
    /\ now = 0
    /\ req = <<>>
    /\ last = <<>>
    /\ created = {}
    /\ deleted = {}
    /\ calls = 0

YAMLIdle ==
    /\ yq = <<>>
    /\ ydoc = <<>>
    /\ yback = <<>>
    /\ ypc = "idle"

RepoIdle ==
    /\ repositories = EmptyMap
    /\ authCache = EmptyMap
    /\ rmutex = [w |-> 0, pending |-> 0, r |-> <<>>]
    /\ rreq = <<>>
    /\ rlast = <<>>
    /\ rcalls = 0

NotMergeIdle == SynthIdle /\ ExtractIdle /\ PipelineIdle /\ FindIdle /\ SessionIdle
    /\ RepoIdle /\ YAMLIdle

NotSynthIdle == MergeIdle /\ ExtractIdle /\ PipelineIdle /\ FindIdle /\ SessionIdle
    /\ RepoIdle /\ YAMLIdle

NotExtractIdle == MergeIdle /\ SynthIdle /\ PipelineIdle /\ FindIdle /\ SessionIdle
    /\ RepoIdle /\ YAMLIdle

NotPipelineIdle == MergeIdle /\ SynthIdle /\ ExtractIdle /\ FindIdle /\ SessionIdle
    /\ RepoIdle /\ YAMLIdle

NotFindIdle == MergeIdle /\ SynthIdle /\ ExtractIdle /\ PipelineIdle /\ SessionIdle
    /\ RepoIdle /\ YAMLIdle

\* the handlers of the session part read the catalog of the repository part
NotSessionIdle == MergeIdle /\ SynthIdle /\ ExtractIdle /\ PipelineIdle /\ FindIdle
    /\ authCache = EmptyMap
    /\ rmutex = [w |-> 0, pending |-> 0, r |-> <<>>]
    /\ rreq = <<>>
    /\ rlast = <<>>
    /\ rcalls = 0
    /\ YAMLIdle

NotYAMLIdle == MergeIdle /\ SynthIdle /\ ExtractIdle /\ PipelineIdle /\ FindIdle
    /\ SessionIdle /\ RepoIdle

NotRepoIdle == MergeIdle /\ SynthIdle /\ ExtractIdle /\ PipelineIdle /\ FindIdle
    /\ SessionIdle /\ YAMLIdle

(***************************************************************************)
(* The YAML form of a question set: yaml.Marshal(session.Questions) and    *)
(* yaml.Unmarshal(data, &questions) with the yaml tags of models.Question. *)
(* A document is the mapping with the key "questions"; a question is the   *)
(* mapping of the keys that are written; a scalar is its text and whether  *)
(* it is written plain or quoted.                                          *)
(***************************************************************************)
ScalarNode(style, text) == [style |-> style, text |-> text, items |-> <<>>]

SequenceNode(items) == [style |-> "sequence", text |-> "", items |-> items]

\* a plausible slip: every plain scalar read as a string
resolveAsString(text) == StrDefault(text)

\* what a plain scalar read into an interface{} becomes (the texts of the
\* model): null, a bool, an int, a float64 or a string
resolve(text) ==
    CASE text \in {"", "null", "~"} -> NilDefault
      [] text \in {"true", "false"} -> TypedDefault("bool", text)
      [] text \in {"0", "1", "3"} -> TypedDefault("int", text)
      [] text \in {"1.5"} -> TypedDefault("float64", text)
      [] OTHER -> StrDefault(text)

\* a string is quoted when its plain form would not be read as a string
StringNode(s) ==
    ScalarNode(IF resolve(s).kind = "string" THEN "plain" ELSE "quoted", s)

\* the keys written for a question: variable and label always, the others
\* (omitempty) unless empty, false or nil
WrittenKeys(q) ==
    {"variable", "label"}
    \cup (IF q.Description # "" THEN {"description"} ELSE {})
    \cup (IF q.Type # "" THEN {"type"} ELSE {})
    \cup (IF q.Required THEN {"required"} ELSE {})
    \cup (IF ~q.Default.isNil THEN {"default"} ELSE {})
    \cup (IF q.Group # "" THEN {"group"} ELSE {})
    \cup (IF Len(q.Options) > 0 THEN {"options"} ELSE {})
    \cup (IF q.ShowIf # "" THEN {"show_if"} ELSE {})
    \cup (IF Len(q.SubQuestions) > 0 THEN {"subquestions"} ELSE {})

RECURSIVE marshalQuestion(_)
marshalQuestion(q) ==
    [k \in WrittenKeys(q) |->
        CASE k = "variable" -> StringNode(q.Variable)
          [] k = "label" -> StringNode(q.Label)
          [] k = "description" -> StringNode(q.Description)
          [] k = "type" -> StringNode(q.Type)
          [] k = "required" -> ScalarNode("plain", "true")
          [] k = "default" ->
                \* a string as a string; a bool, an int or a float64 plain, the
                \* float64 in its shortest form (strconv.FormatFloat 'g')
                IF q.Default.kind = "string" THEN StringNode(q.Default.val)
                ELSE ScalarNode("plain", q.Default.val)
          [] k = "group" -> StringNode(q.Group)
          [] k = "options" ->
                SequenceNode([i \in 1..Len(q.Options) |-> StringNode(q.Options[i])])
          [] k = "show_if" -> StringNode(q.ShowIf)
          [] OTHER ->
                SequenceNode([i \in 1..Len(q.SubQuestions) |->
                                marshalQuestion(q.SubQuestions[i])])]

\* yaml.Marshal(session.Questions)
MarshalYAML(questions) ==
    [questions |-> [i \in 1..Len(questions.Questions) |->
                        marshalQuestion(questions.Questions[i])]]

RECURSIVE unmarshalQuestion(_)
unmarshalQuestion(entry) ==
    LET has(k) == k \in DOMAIN entry
        str(k) == IF has(k) THEN entry[k].text ELSE ""
    IN [Variable |-> str("variable"),
        Label |-> str("label"),
        Description |-> str("description"),
        Type |-> str("type"),
        Required |-> has("required") /\ entry["required"].text = "true",
        Default |-> IF ~has("default") THEN NilDefault
                    ELSE IF entry["default"].style = "quoted"
                         THEN StrDefault(entry["default"].text)
                         ELSE resolve(entry["default"].text),
        Group |-> str("group"),
        Options |-> IF has("options")
                    THEN [i \in 1..Len(entry["options"].items) |->
                            entry["options"].items[i].text]
                    ELSE <<>>,
        ShowIf |-> str("show_if"),
        SubQuestions |-> IF has("subquestions")
                         THEN [i \in 1..Len(entry["subquestions"].items) |->
                                 unmarshalQuestion(entry["subquestions"].items[i])]
                         ELSE <<>>]

\* yaml.Unmarshal(data, &questions) of a document yaml.Marshal wrote
UnmarshalYAML(doc) ==
    Questions([i \in 1..Len(doc.questions) |-> unmarshalQuestion(doc.questions[i])])

(***************************************************************************)
(* SpecYAML: a question set marshalled and the document unmarshalled.      *)
(***************************************************************************)
\* the values a Default holds after json or yaml decoding
DefaultValues ==
    {NilDefault, StrDefault("nvidia"), StrDefault("1"), StrDefault(""),
     TypedDefault("bool", "false"), TypedDefault("bool", "true"),
     TypedDefault("int", "3"), TypedDefault("float64", "1.5"),
     TypedDefault("float64", "1")}

\* the questions of TestQuestionYAMLGeneration with each default, a question
\* of variable and label alone, and one with a subquestion
YAMLQuestions ==
    {[Question("ollama.hardware.type", "GPU Hardware Type", "", "enum", FALSE, d,
               "GPU Configuration", <<"nvidia", "apple">>)
        EXCEPT !.ShowIf = "ollama.gpu.enabled=true"] : d \in DefaultValues}
    \cup {Question("", "", "", "", FALSE, NilDefault, "", <<>>),
          [Question("ollama.gpu.enabled", "Enable GPU Acceleration",
                    "Enable GPU acceleration for Ollama workloads", "boolean",
                    TRUE, TypedDefault("bool", "false"), "GPU Configuration", <<>>)
             EXCEPT !.SubQuestions =
                      <<Question("true", "1", "", "string", FALSE, StrDefault("null"),
                                 "", <<"">>)>>]}

YAMLInit ==
    /\ yq \in {Questions(qs) : qs \in SeqsUpTo(YAMLQuestions, MaxQuestions)}
    /\ ydoc = MarshalYAML(Questions(<<>>))
    /\ yback = Questions(<<>>)
    /\ ypc = "call"
    /\ NotYAMLIdle

\* yamlData, err := yaml.Marshal(session.Questions)
Marshal ==
    /\ ypc = "call"
    /\ ydoc' = MarshalYAML(yq)
    /\ ypc' = "marshalled"
    /\ UNCHANGED <<yq, yback, notYAMLVars>>

\* err = yaml.Unmarshal(data, &questions)
Unmarshal ==
    /\ ypc = "marshalled"
    /\ yback' = UnmarshalYAML(ydoc)
    /\ ypc' = "unmarshalled"
    /\ UNCHANGED <<yq, ydoc, notYAMLVars>>

YAMLNext == Marshal \/ Unmarshal

SpecYAML == YAMLInit /\ [][YAMLNext]_vars

(***************************************************************************)
(* SpecMerge: mergeQuestions applied to every pair of bounded inputs.      *)
(***************************************************************************)
MergeInit ==
    /\ existing \in {Questions(qs) : qs \in SeqsUpTo(QuestionUniverse, MaxExisting)}
    /\ defaults \in {Questions(qs) : qs \in SeqsUpTo(QuestionUniverse, MaxDefaults)}
    /\ merged = Questions(<<>>)
    /\ remerged = Questions(<<>>)
    /\ mpc = "call"
    /\ NotMergeIdle

Merge ==
    /\ mpc = "call"
    /\ merged' = mergeQuestions(existing, defaults)
    /\ mpc' = "return"
    /\ UNCHANGED <<existing, defaults, remerged, notMergeVars>>

\* mergeQuestions(merged, defaults): the result merged with the same defaults
MergeAgain ==
    /\ mpc = "return"
    /\ remerged' = mergeQuestions(merged, defaults)
    /\ mpc' = "again"
    /\ UNCHANGED <<existing, defaults, merged, notMergeVars>>

MergeNext == Merge \/ MergeAgain

SpecMerge == MergeInit /\ [][MergeNext]_vars

(***************************************************************************)
(* SpecSynth: hasNestedKey and generateDefaultQuestions applied to every   *)
(* bounded configuration tree.                                             *)
(***************************************************************************)
SynthInit ==
    /\ values \in Trees
    /\ keys = <<>>
    /\ found = FALSE
    /\ generated = Questions(<<>>)
    /\ spc = "call"
    /\ NotSynthIdle

HasNestedKey ==
    /\ spc = "call"
    /\ \E ks \in KeyPaths :
          /\ keys' = ks
          /\ found' = hasNestedKey(values, ks)
    /\ spc' = "probed"
    /\ UNCHANGED <<values, generated, notSynthVars>>

GenerateDefaultQuestions ==
    /\ spc = "call"
    /\ generated' = generateDefaultQuestions(values)
    /\ spc' = "generated"
    /\ UNCHANGED <<values, keys, found, notSynthVars>>

SynthNext == HasNestedKey \/ GenerateDefaultQuestions

SpecSynth == SynthInit /\ [][SynthNext]_vars

(***************************************************************************)
(* SpecExtract: extractTarGz run header by header on every bounded         *)
(* archive, into a destination that does not exist yet below the           *)
(* processor's temporary directory.                                        *)
(***************************************************************************)
\* the file system after os.MkdirAll(p.tempDir, 0755)
BaseFS == MkdirAll(EmptyFS, TempDir)

EntryNames ==
    {<<"values.yaml">>,
     <<"chart">>,
     <<"chart", "values.yaml">>,
     <<".">>,
     <<"..", "evil">>,
     <<"..", "..", "..", "etc", "passwd">>,
     <<"chart", "..", "..", "evil">>,
     <<"", "etc", "passwd">>}

Typeflags == {"dir", "reg", "symlink"}

Headers == [Name : EntryNames, Typeflag : Typeflags, content : {"data"}]

Endings == {"eof", "badframe", "truncated"}

Archives(headers, n) ==
    {[src |-> "ok", entries |-> es, ending |-> e] :
        es \in SeqsUpTo(headers, n), e \in Endings}
    \cup {[src |-> k, entries |-> <<>>, ending |-> "eof"] : k \in {"missing", "notgzip"}}

\* the paths an operation created or wrote
Touched(before, after) ==
    {q \in DOMAIN after : ~Exists(before, q) \/ before[q] # after[q]}

ExtractInit ==
    /\ xfs = BaseFS
    /\ xdest = Append(TempDir, "extracted-1")
    /\ xarchive \in Archives(Headers, MaxEntries)
    /\ xi = 1
    /\ xlog = <<>>
    /\ xerr = FALSE
    /\ xpc = "open"
    /\ NotExtractIdle

\* os.Open and gzip.NewReader
ExtractOpen ==
    /\ xpc = "open"
    /\ IF xarchive.src = "ok"
       THEN xpc' = "loop" /\ xerr' = FALSE
       ELSE xpc' = "return" /\ xerr' = TRUE
    /\ UNCHANGED <<xfs, xdest, xarchive, xi, xlog, notExtractVars>>

\* tr.Next returned a header: one iteration of the loop
ExtractHeader ==
    /\ xpc = "loop"
    /\ xi <= Len(xarchive.entries)
    /\ LET r == extractEntry(xfs, xdest, xarchive.entries[xi],
                             xi = Len(xarchive.entries) /\ xarchive.ending = "truncated")
       IN /\ xfs' = r.fs
          /\ xlog' = Append(xlog, [header |-> xarchive.entries[xi],
                                   touched |-> Touched(xfs, r.fs)])
          /\ xerr' = r.err
          /\ xpc' = IF r.err THEN "return" ELSE "loop"
    /\ xi' = xi + 1
    /\ UNCHANGED <<xdest, xarchive, notExtractVars>>

\* tr.Next returned io.EOF or an error
ExtractEnd ==
    /\ xpc = "loop"
    /\ xi > Len(xarchive.entries)
    /\ xerr' = (xarchive.ending # "eof")
    /\ xpc' = "return"
    /\ UNCHANGED <<xfs, xdest, xarchive, xi, xlog, notExtractVars>>

ExtractNext == ExtractOpen \/ ExtractHeader \/ ExtractEnd

SpecExtract == ExtractInit /\ [][ExtractNext]_vars

(***************************************************************************)
(* Spec: ProcessChart, one invocation on every reference of the model,     *)
(* with and without a helm binary, against every behaviour of the chart    *)
(* server, the registry and the disk.                                      *)
(***************************************************************************)
Refs == {EmptyRef, NotAURLRef, FileRef, BareOCIRef, OCIRef, OCIRefOther, HTTPSRef}

NoQuestionsResult == [questions |-> Questions(<<>>), err |-> "pending"]

\* the frame of ProcessChart(chartURL) at its call
CallFrame(chartURL) ==
    [chartURL |-> chartURL, pc |-> "call",
     chartDir |-> NoPath, values |-> EmptyMap, questions |-> Questions(<<>>),
     \* the returned values, questions and error, and the text of the error
     result |-> [values |-> NilValues, questions |-> Questions(<<>>), err |-> "pending"],
     \* history
     errText |-> <<>>,
     resolveErr |-> "pending", valuesErr |-> "pending", parsed |-> NoQuestionsResult,
     made |-> {}, fetches |-> 0, toolRuns |-> 0, removals |-> 0]

\* the paths below tempDir that a step created or wrote
MadeBy(before, after) ==
    {q \in Touched(before, after) : Len(q) > Len(TempDir) /\ IsPrefix(TempDir, q)}

Init ==
    /\ procs = {1}
    /\ frame \in [procs -> {CallFrame(u) : u \in Refs}]
    /\ fs = MkdirAll(EmptyFS, <<"tmp">>)
    /\ clock = 1
    /\ helm \in BOOLEAN
    /\ NotPipelineIdle

\* chartDir, err := p.downloadAndExtract(chartURL), and the return on error
Resolve(i) ==
    /\ frame[i].pc = "call"
    /\ \E o \in downloadAndExtract(fs, frame[i].chartURL, helm, clock) :
          /\ fs' = o.fs
          /\ frame' = [frame EXCEPT ![i] =
                [@ EXCEPT !.pc = IF o.err = "none" THEN "resolved" ELSE "returned",
                          !.chartDir = o.dir,
                          !.resolveErr = o.err,
                          !.errText = IF o.err = "none" THEN @
                                      ELSE wrapError("failed to download chart",
                                              downloadErrorText(o.err,
                                                  frame[i].chartURL, clock)),
                          !.made = MadeBy(fs, o.fs),
                          !.fetches = o.fetches,
                          !.toolRuns = o.toolRuns,
                          !.result = IF o.err = "none" THEN @
                                     ELSE [values |-> NilValues,
                                           questions |-> Questions(<<>>),
                                           err |-> "download"]]]
    /\ UNCHANGED <<procs, clock, helm, notPipelineVars>>

\* values, err := p.parseValues(chartDir), and the return on error, which
\* runs the deferred os.RemoveAll(chartDir)
ParseValues(i) ==
    /\ frame[i].pc = "resolved"
    /\ LET r == parseValues(fs, frame[i].chartDir) IN
       IF r.err = "none"
       THEN /\ frame' = [frame EXCEPT ![i] =
                   [@ EXCEPT !.pc = "parsed", !.values = r.values,
                             !.valuesErr = r.err]]
            /\ fs' = fs
       ELSE /\ frame' = [frame EXCEPT ![i] =
                   [@ EXCEPT !.pc = "returned", !.valuesErr = r.err,
                             !.errText =
                                wrapError("failed to parse values.yaml",
                                    valuesErrorText(r.err,
                                        findFile(fs, frame[i].chartDir, "values.yaml"))),
                             !.removals = @ + 1,
                             !.result = [values |-> NilValues,
                                         questions |-> Questions(<<>>),
                                         err |-> "values"]]]
            /\ fs' = removeChartDir(fs, frame[i].chartDir)
    /\ UNCHANGED <<procs, clock, helm, notPipelineVars>>

\* questions, err := p.parseQuestions(chartDir) and the if/else after it
ParseQuestions(i) ==
    /\ frame[i].pc = "parsed"
    /\ LET q == parseQuestions(fs, frame[i].chartDir) IN
       frame' = [frame EXCEPT ![i] =
                   [@ EXCEPT !.pc = "synthesized", !.parsed = q,
                             !.questions = finalQuestions(frame[i].values, q)]]
    /\ UNCHANGED <<procs, fs, clock, helm, notPipelineVars>>

\* return values, questions, nil, which runs the deferred os.RemoveAll(chartDir)
Return(i) ==
    /\ frame[i].pc = "synthesized"
    /\ frame' = [frame EXCEPT ![i] =
                   [@ EXCEPT !.pc = "returned", !.removals = @ + 1,
                             !.result = [values |-> Values(frame[i].values),
                                         questions |-> frame[i].questions,
                                         err |-> "none"]]]
    /\ fs' = removeChartDir(fs, frame[i].chartDir)
    /\ UNCHANGED <<procs, clock, helm, notPipelineVars>>

\* time passes
Tick ==
    /\ procs # {}
    /\ clock < MaxClock
    /\ clock' = clock + 1
    /\ UNCHANGED <<procs, frame, fs, helm, notPipelineVars>>

Next ==
    \/ \E i \in procs : Resolve(i)
    \/ \E i \in procs : ParseValues(i)
    \/ \E i \in procs : ParseQuestions(i)
    \/ \E i \in procs : Return(i)
    \/ Tick

Spec == Init /\ [][Next]_vars

(***************************************************************************)
(* SpecConcurrent: several ProcessChart invocations on one Processor, one  *)
(* per chart-processing request, interleaved at the steps of ProcessChart. *)
(***************************************************************************)
\* references that resolve: a chart archive over https, an OCI chart
ValidRefs == {HTTPSRef, OCIRef}

ConcurrentInit ==
    /\ procs = 1..MaxProcs
    /\ frame \in [procs -> {CallFrame(u) : u \in ValidRefs}]
    /\ fs = MkdirAll(EmptyFS, <<"tmp">>)
    /\ clock = 1
    /\ helm \in BOOLEAN
    /\ NotPipelineIdle

SpecConcurrent == ConcurrentInit /\ [][Next]_vars

(***************************************************************************)
(* SpecFind: findFile applied to every bounded directory tree.             *)
(***************************************************************************)
\* the directory walked: a resolved chart directory below tempDir
FindRoot == TempDir \o <<"extracted-1">>

\* the directories a chart tree of the model has: the root, the chart's own
\* directory, a sibling and a subchart directory
FindDirs ==
    {FindRoot, FindRoot \o <<"chart">>, FindRoot \o <<"sub">>,
     FindRoot \o <<"chart", "sub">>}

FindFileNames == {"Chart.yaml", "questions.yaml", "values.yaml"}

FindCandidates == {d \o <<n>> : d \in FindDirs, n \in FindFileNames}

\* the tree holding the given files and the directories above them
TreeOf(files) ==
    LET dirs == {FindRoot} \cup
                {q \in FindDirs : \E f \in files : IsPrefix(q, f)}
    IN [q \in dirs \cup files |-> IF q \in files THEN File("test") ELSE Dir]

FindTrees ==
    {TreeOf(files) : files \in {F \in SUBSET FindCandidates :
                                    Cardinality(F) <= MaxFiles}}

FindInit ==
    /\ wfs \in FindTrees
    /\ wdir = FindRoot
    /\ wname \in {"values.yaml", "questions.yaml", "questions.yml"}
    /\ wresult = NoPath
    /\ wpc = "called"
    /\ NotFindIdle

FindFile ==
    /\ wpc = "called"
    /\ wresult' = findFile(wfs, wdir, wname)
    /\ wpc' = "returned"
    /\ UNCHANGED <<wfs, wdir, wname, notFindVars>>

FindNext == FindFile

SpecFind == FindInit /\ [][FindNext]_vars

(***************************************************************************)
(* helm.RepositoryManager (backend/pkg/helm/repository.go).                *)
(***************************************************************************)
Repository(name, url, description, type, auth, addedAt) ==
    [Name |-> name, URL |-> url, Description |-> description, Type |-> type,
     Auth |-> auth, AddedAt |-> addedAt]

\* a nil *models.Authentication, and one a request carries
NilAuth == [isNil |-> TRUE, Username |-> "", BaseURL |-> <<>>]

UserAuth == [isNil |-> FALSE, Username |-> "user", BaseURL |-> <<>>]

\* extractBaseURL: the host of the URL
extractBaseURL(repoURL) == IF Len(repoURL) >= 3 THEN repoURL[3] ELSE <<>>

\* the body of AddRepositoryWithAuth between Lock and Unlock; t is the
\* reading of time.Now().  The result of performHelmLogin is only printed.
AddRepositoryWithAuth(repos, cache, name, repoURL, description, repoType, auth, t) ==
    LET type == IF repoType = ""
                THEN IF hasOCIPrefix(repoURL) THEN "oci" ELSE "http"
                ELSE repoType
        baseURL == extractBaseURL(repoURL)
        stored == IF ~auth.isNil THEN [auth EXCEPT !.BaseURL = baseURL]
                  ELSE IF type = "oci" /\ baseURL \in DOMAIN cache THEN cache[baseURL]
                  ELSE auth
        repo == Repository(name, repoURL, description, type, stored, t)
    IN [repositories |-> (name :> repo) @@ repos,
        authCache |-> IF ~auth.isNil THEN (baseURL :> stored) @@ cache ELSE cache,
        err |-> "none"]

\* AddRepository(name, url)
AddRepository(repos, cache, name, url, t) ==
    AddRepositoryWithAuth(repos, cache, name, url, "", "http", NilAuth, t)

\* the body of RemoveRepository between Lock and Unlock
RemoveRepository(repos, name) ==
    IF name \notin DOMAIN repos
    THEN [repositories |-> repos, err |-> "repository not found"]
    ELSE [repositories |-> [n \in DOMAIN repos \ {name} |-> repos[n]],
          err |-> "none"]

\* ListRepositories: the repositories in the order of a map iteration, which
\* is unspecified
ListRepositories(repos) == {repos[n] : n \in DOMAIN repos}

\* a plausible slip: the lookup's outcome ignored
PullChartUnchecked(repos, repository) ==
    [chartURL |-> << <<"https", "">>, <<"">>, <<"host">>, <<"x-1.0.0.tgz">> >>,
     err |-> "none"]

\* PullChart: the lookup under the read lock, and the URL built from the
\* repository's URL, the chart name and the version ("x", "1.0.0").  For an
\* OCI repository it also tries a helm pull into helmHome, whose outcome is
\* only printed.
PullChart(repos, repository) ==
    IF repository \notin DOMAIN repos
    THEN [chartURL |-> EmptyRef, err |-> "repository not found"]
    ELSE LET repo == repos[repository] IN
         IF repo.Type = "oci"
         THEN [chartURL |-> Append(repo.URL, <<"x", "1.0.0">>), err |-> "none"]
         ELSE IF repository = "bitnami"
         THEN [chartURL |-> << <<"https", "">>, <<"">>, <<"charts.bitnami.com">>,
                               <<"bitnami">>, <<"x-1.0.0.tgz">> >>,
               err |-> "none"]
         ELSE [chartURL |-> Append(repo.URL, <<"x-1.0.0.tgz">>), err |-> "none"]

\* the names of the model: two of addDefaultRepositories and one of no
\* repository
RepoNames == {"bitnami", "suse-application-collection", "non-existent"}

\* https://host and oci://host/charts
RepoURLs == {<< <<"https", "">>, <<"">>, <<"host">> >>,
             << <<"oci", "">>, <<"">>, <<"host">>, <<"charts">> >>}

\* the catalog after NewRepositoryManager(): addDefaultRepositories (two of
\* its five entries)
DefaultRepositories ==
    LET first == AddRepositoryWithAuth(EmptyMap, EmptyMap, "bitnami",
                    << <<"https", "">>, <<"">>, <<"host">> >>,
                    "Bitnami Helm Charts", "http", NilAuth, 0)
    IN AddRepositoryWithAuth(first.repositories, first.authCache,
            "suse-application-collection",
            << <<"oci", "">>, <<"">>, <<"host">>, <<"charts">> >>,
            "SUSE Application Collection (OCI)", "oci", NilAuth, 0).repositories

(***************************************************************************)
(* session.Manager (backend/pkg/session/manager.go).  Manager.sessions     *)
(* maps an id to a pointer; the Session objects live in the heap and stay  *)
(* reachable through pointers handed out earlier after their key is gone.  *)
(***************************************************************************)
Session(id, chartURL, vals, questions, createdAt, updatedAt) ==
    [ID |-> id, ChartURL |-> chartURL, Values |-> vals, Questions |-> questions,
     CreatedAt |-> createdAt, UpdatedAt |-> updatedAt]

\* a nil *models.Session
NoSession == 0

\* an id no CreateSession call returned
NonExistentID == -1

\* uuid.New().String(): an id that no earlier call was given
NewUUID(h) == Cardinality(DOMAIN h) + 1

\* a plausible slip: the id taken from the number of live sessions
CreateSessionCountingLive(h, m, chartURL, createdAt, updatedAt) ==
    LET sessionID == Cardinality(m) + 1
    IN [heap |-> (sessionID :>
                    Session(sessionID, chartURL, Values(EmptyMap),
                            Questions(<<>>), createdAt, updatedAt)) @@ h,
        sessions |-> m \cup {sessionID},
        session |-> sessionID]

\* the body of CreateSession between Lock and Unlock; createdAt and updatedAt
\* are the readings of its two time.Now() calls
CreateSession(h, m, chartURL, createdAt, updatedAt) ==
    LET sessionID == NewUUID(h)
    IN [heap |-> h @@ (sessionID :>
                    Session(sessionID, chartURL, Values(EmptyMap),
                            Questions(<<>>), createdAt, updatedAt)),
        sessions |-> m \cup {sessionID},
        session |-> sessionID]

GetSession(m, sessionID) ==
    IF sessionID \in m
    THEN [session |-> sessionID, err |-> "none"]
    ELSE [session |-> NoSession, err |-> "session not found"]

\* a plausible slip: the timestamp refreshed and the questions left as they were
UpdateSessionKeepingQuestions(h, m, sessionID, questions, t) ==
    IF sessionID \notin m
    THEN [heap |-> h, err |-> "session not found"]
    ELSE [heap |-> [h EXCEPT ![sessionID].UpdatedAt = t], err |-> "none"]

\* a plausible slip: the whole timestamp pair refreshed
UpdateSessionRestamping(h, m, sessionID, questions, t) ==
    IF sessionID \notin m
    THEN [heap |-> h, err |-> "session not found"]
    ELSE [heap |-> [h EXCEPT ![sessionID].Questions = questions,
                             ![sessionID].CreatedAt = t,
                             ![sessionID].UpdatedAt = t],
          err |-> "none"]

UpdateSession(h, m, sessionID, questions, t) ==
    IF sessionID \notin m
    THEN [heap |-> h, err |-> "session not found"]
    ELSE [heap |-> [h EXCEPT ![sessionID].Questions = questions,
                             ![sessionID].UpdatedAt = t],
          err |-> "none"]

\* a plausible slip: the map emptied instead of the one key deleted
DeleteSessionAll(m, sessionID) ==
    IF sessionID \notin m
    THEN [sessions |-> m, err |-> "session not found"]
    ELSE [sessions |-> {}, err |-> "none"]

DeleteSession(m, sessionID) ==
    IF sessionID \notin m
    THEN [sessions |-> m, err |-> "session not found"]
    ELSE [sessions |-> m \ {sessionID}, err |-> "none"]

\* sync.RWMutex: Lock waits until nobody holds it, RLock until no writer does
CanLock(mu) == mu.w = 0 /\ mu.r = {}

CanRLock(mu) == mu.w = 0

Unlocked == [w |-> 0, r |-> {}]

(***************************************************************************)
(* The handlers (internal/api/handlers.go), one request per slot.          *)
(***************************************************************************)
Slots == 1..MaxSlots

Kinds == {"ProcessChart", "GetChart", "UpdateChart", "GetQuestionsYAML",
          "DeleteSession"}

\* the question of the request body in TestUpdateSession
TestVarQuestion ==
    Question("test.var", "Test Variable", "", "string", FALSE, NilDefault, "", <<>>)

\* question sets a PUT request carries
Payloads == {Questions(<<TestVarQuestion>>), Questions(<<NameQuestion>>)}

\* what helmProcessor.ProcessChart returns to the handler: the tree and the
\* questions of a chart, or an error
ProcessedChart ==
    LET tree == UnmarshalValues("values:service-map")
    IN [values |-> Values(tree), questions |-> generateDefaultQuestions(tree),
        err |-> "none"]

ProcessResults ==
    {ProcessedChart,
     [values |-> NilValues, questions |-> Questions(<<>>), err |-> "download"]}

NoResult == [values |-> NilValues, questions |-> Questions(<<>>), err |-> "pending"]

\* what a request answered: the status, the fields of the ChartResponse, the
\* YAML body of GET /q, the error text, and whether a field was read while
\* being written
NoResponse ==
    [status |-> 0, sessionID |-> NoSession, values |-> NilValues,
     questions |-> Questions(<<>>), body |-> MarshalYAML(Questions(<<>>)),
     error |-> "", torn |-> FALSE]

IdleRequest ==
    [kind |-> "none", pc |-> "idle", id |-> NonExistentID, url |-> EmptyRef,
     repository |-> "",
     q |-> Questions(<<>>), session |-> NoSession, createdAt |-> 0,
     out |-> NoResult, resp |-> NoResponse]

\* the field of a session that request r is about to assign, outside the
\* lock (the handlers' session.Values = ..., session.Questions = ...) or
\* under it (UpdateSession)
Writes(r, s, field) ==
    \/ /\ req[r].kind \in {"ProcessChart", "ProcessChartFromRepository"}
       /\ req[r].session = s
       /\ \/ req[r].pc = "writeValues" /\ field = "Values"
          \/ req[r].pc = "writeQuestions" /\ field = "Questions"
    \/ /\ req[r].kind = "UpdateChart"
       /\ req[r].pc = "UpdateSession"
       /\ req[r].id = s
       /\ s \in sessions
       /\ field = "Questions"

\* the field of a session that request r is about to read through the
\* pointer GetSession returned
Reads(r, s, field) ==
    /\ req[r].session = s
    /\ \/ req[r].kind = "GetChart" /\ req[r].pc = "readValues" /\ field = "Values"
       \/ req[r].kind = "GetChart" /\ req[r].pc = "readQuestions" /\ field = "Questions"
       \/ req[r].kind = "GetQuestionsYAML" /\ req[r].pc = "marshal" /\ field = "Questions"

Overlapped(r, s, field) == \E w \in Slots \ {r} : Writes(w, s, field)

(***************************************************************************)
(* SpecSession: requests on one Manager, interleaved at the lock           *)
(* operations and at the handlers' accesses to the session fields.         *)
(***************************************************************************)
\* the store after NewManager(), and the store after one POST /api/chart
\* has been answered with 200
SessionStores ==
    LET c == CreateSession(<<>>, {}, HTTPSRef, 1, 1)
    IN {[heap |-> <<>>, sessions |-> {}],
        [heap |-> [c.heap EXCEPT
                     ![c.session].Values = ProcessedChart.values,
                     ![c.session].Questions = ProcessedChart.questions],
         sessions |-> c.sessions]}

SessionInit ==
    /\ \E store \in SessionStores :
          /\ heap = store.heap
          /\ sessions = store.sessions
          /\ created = store.sessions
    /\ mutex = Unlocked
    /\ now = 1
    /\ req = [r \in Slots |-> IdleRequest]
    /\ last = IdleRequest
    /\ deleted = {}
    /\ calls = 0
    /\ repositories = DefaultRepositories
    /\ NotSessionIdle

FirstStep(kind) ==
    CASE kind = "ProcessChart" -> "CreateSession.Lock"
      [] kind = "ProcessChartFromRepository" -> "PullChart"
      [] kind = "UpdateChart" -> "UpdateSession.Lock"
      [] kind = "DeleteSession" -> "DeleteSession.Lock"
      [] OTHER -> "GetSession.RLock"

\* request r answers (or the direct call returns): its slot is free again
Answer(r, resp) ==
    /\ last' = [req[r] EXCEPT !.pc = "done", !.resp = resp]
    /\ req' = [req EXCEPT ![r] = IdleRequest]

\* a request arrives: POST /api/chart, GET or PUT /api/chart/:session_id,
\* GET /api/chart/:session_id/q, or a direct DeleteSession call; it takes the
\* first free slot, and a POST carries the chart URL of its slot (as each
\* caller of TestConcurrentAccess passes a URL of its own)
StartRequest(r) ==
    /\ req[r].pc = "idle"
    /\ \A k \in Slots : k < r => req[k].pc # "idle"
    /\ calls < MaxCalls
    /\ \E kind \in Kinds, id \in created \cup {NonExistentID}, q \in Payloads :
          req' = [req EXCEPT ![r] =
                    [IdleRequest EXCEPT
                        !.kind = kind,
                        !.pc = FirstStep(kind),
                        !.id = IF kind = "ProcessChart" THEN NonExistentID ELSE id,
                        !.url = CASE kind # "ProcessChart" -> EmptyRef
                                   [] r = 1 -> HTTPSRef
                                   [] OTHER -> OCIRef,
                        !.q = IF kind = "UpdateChart" THEN q ELSE Questions(<<>>)]]
    /\ calls' = calls + 1
    /\ UNCHANGED <<heap, sessions, mutex, now, last, created, deleted, notSessionVars>>

\* a request arrives: POST /api/charts/process
StartRepositoryRequest(r) ==
    /\ req[r].pc = "idle"
    /\ \A k \in Slots : k < r => req[k].pc # "idle"
    /\ calls < MaxCalls
    /\ \E repository \in RepoNames :
          req' = [req EXCEPT ![r] =
                    [IdleRequest EXCEPT
                        !.kind = "ProcessChartFromRepository",
                        !.pc = FirstStep("ProcessChartFromRepository"),
                        !.repository = repository]]
    /\ calls' = calls + 1
    /\ UNCHANGED <<heap, sessions, mutex, now, last, created, deleted, notSessionVars>>

\* chartURL, err := h.repositoryManager.PullChart(req.Repository, req.Chart,
\* req.Version) and the error answer
PullChartReturn(r) ==
    /\ req[r].pc = "PullChart"
    /\ LET p == PullChart(repositories, req[r].repository) IN
          IF p.err # "none"
          THEN Answer(r, [NoResponse EXCEPT !.status = 500, !.error = p.err])
          ELSE /\ req' = [req EXCEPT ![r] =
                            [@ EXCEPT !.pc = "CreateSession.Lock", !.url = p.chartURL]]
               /\ last' = last
    /\ UNCHANGED <<heap, sessions, mutex, now, created, deleted, calls, notSessionVars>>

\* m.mutex.Lock(); in CreateSession the struct literal then reads time.Now()
\* for CreatedAt
Lock(r) ==
    /\ req[r].pc \in {"CreateSession.Lock", "UpdateSession.Lock", "DeleteSession.Lock"}
    /\ CanLock(mutex)
    /\ mutex' = [w |-> r, r |-> {}]
    /\ req' = [req EXCEPT ![r] =
                [@ EXCEPT !.pc = CASE @ = "CreateSession.Lock" -> "CreateSession"
                                   [] @ = "UpdateSession.Lock" -> "UpdateSession"
                                   [] OTHER -> "DeleteSession",
                          !.createdAt = IF req[r].pc = "CreateSession.Lock"
                                        THEN now ELSE @]]
    /\ UNCHANGED <<heap, sessions, now, last, created, deleted, calls, notSessionVars>>

\* m.mutex.RLock()
RLock(r) ==
    /\ req[r].pc = "GetSession.RLock"
    /\ CanRLock(mutex)
    /\ mutex' = [mutex EXCEPT !.r = @ \cup {r}]
    /\ req' = [req EXCEPT ![r].pc = "GetSession"]
    /\ UNCHANGED <<heap, sessions, now, last, created, deleted, calls, notSessionVars>>

\* the rest of CreateSession: UpdatedAt: time.Now(), the insert, the Unlock
CreateSessionReturn(r) ==
    /\ req[r].pc = "CreateSession"
    /\ LET c == CreateSession(heap, sessions, req[r].url, req[r].createdAt, now) IN
          /\ heap' = c.heap
          /\ sessions' = c.sessions
          /\ created' = created \cup {c.session}
          /\ req' = [req EXCEPT ![r] =
                        [@ EXCEPT !.pc = "ProcessChart", !.session = c.session]]
    /\ mutex' = Unlocked
    /\ UNCHANGED <<now, last, deleted, calls, notSessionVars>>

\* values, questions, err := h.helmProcessor.ProcessChart(req.URL) and the
\* error answer
RunPipeline(r) ==
    /\ req[r].pc = "ProcessChart"
    /\ \E out \in ProcessResults :
          IF out.err # "none"
          THEN Answer(r, [NoResponse EXCEPT !.status = 500, !.error = out.err])
          ELSE /\ req' = [req EXCEPT ![r] =
                            [@ EXCEPT !.pc = "writeValues", !.out = out]]
               /\ last' = last
    /\ UNCHANGED <<heap, sessions, mutex, now, created, deleted, calls, notSessionVars>>

\* session.Values = values
WriteValues(r) ==
    /\ req[r].pc = "writeValues"
    /\ heap' = [heap EXCEPT ![req[r].session].Values = req[r].out.values]
    /\ req' = [req EXCEPT ![r].pc = "writeQuestions"]
    /\ UNCHANGED <<sessions, mutex, now, last, created, deleted, calls, notSessionVars>>

\* session.Questions = questions and the answer
WriteQuestions(r) ==
    /\ req[r].pc = "writeQuestions"
    /\ heap' = [heap EXCEPT ![req[r].session].Questions = req[r].out.questions]
    /\ Answer(r, [NoResponse EXCEPT !.status = 200,
                                    !.sessionID = req[r].session,
                                    !.values = req[r].out.values,
                                    !.questions = req[r].out.questions])
    /\ UNCHANGED <<sessions, mutex, now, created, deleted, calls, notSessionVars>>

\* the rest of GetSession: the lookup and the RUnlock, then the 404 answer
GetSessionReturn(r) ==
    /\ req[r].pc = "GetSession"
    /\ LET g == GetSession(sessions, req[r].id) IN
          IF g.err # "none"
          THEN Answer(r, [NoResponse EXCEPT !.status = 404,
                                            !.error = "Session not found"])
          ELSE /\ req' = [req EXCEPT ![r] =
                            [@ EXCEPT !.session = g.session,
                                      !.pc = IF req[r].kind = "GetChart"
                                             THEN "readValues" ELSE "marshal"]]
               /\ last' = last
    /\ mutex' = [mutex EXCEPT !.r = @ \ {r}]
    /\ UNCHANGED <<heap, sessions, now, created, deleted, calls, notSessionVars>>

\* Values: session.Values in GetChart's response literal
ReadValues(r) ==
    /\ req[r].pc = "readValues"
    /\ req' = [req EXCEPT ![r] =
                [@ EXCEPT !.pc = "readQuestions",
                          !.resp.sessionID = req[r].session,
                          !.resp.values = heap[req[r].session].Values]]
    /\ UNCHANGED <<heap, sessions, mutex, now, last, created, deleted, calls, notSessionVars>>

\* Questions: session.Questions (GetChart) or yaml.Marshal(session.Questions)
\* (GetQuestionsYAML): a read that runs while another request assigns the
\* field is a data race and may see a half-written slice header
ReadQuestions(r) ==
    /\ req[r].pc \in {"readQuestions", "marshal"}
    /\ \E torn \in IF Overlapped(r, req[r].session, "Questions")
                   THEN BOOLEAN ELSE {FALSE} :
          Answer(r, [req[r].resp EXCEPT
                        !.status = 200,
                        !.questions = heap[req[r].session].Questions,
                        !.body = IF req[r].kind = "GetQuestionsYAML"
                                 THEN MarshalYAML(heap[req[r].session].Questions)
                                 ELSE @,
                        !.torn = torn])
    /\ UNCHANGED <<heap, sessions, mutex, now, created, deleted, calls, notSessionVars>>

\* the rest of UpdateSession and UpdateChart's answer
UpdateSessionReturn(r) ==
    /\ req[r].pc = "UpdateSession"
    /\ LET u == UpdateSession(heap, sessions, req[r].id, req[r].q, now) IN
          /\ heap' = u.heap
          /\ Answer(r, IF u.err = "none"
                       THEN [NoResponse EXCEPT !.status = 200]
                       ELSE [NoResponse EXCEPT !.status = 404,
                                               !.error = "Session not found"])
    /\ mutex' = Unlocked
    /\ UNCHANGED <<sessions, now, created, deleted, calls, notSessionVars>>

\* the rest of DeleteSession
DeleteSessionReturn(r) ==
    /\ req[r].pc = "DeleteSession"
    /\ LET d == DeleteSession(sessions, req[r].id) IN
          /\ sessions' = d.sessions
          /\ deleted' = IF d.err = "none" THEN deleted \cup {req[r].id} ELSE deleted
          /\ Answer(r, [NoResponse EXCEPT !.error = d.err])
    /\ mutex' = Unlocked
    /\ UNCHANGED <<heap, now, created, calls, notSessionVars>>

\* time passes
TimePasses ==
    /\ now < MaxClock
    /\ now' = now + 1
    /\ UNCHANGED <<heap, sessions, mutex, req, last, created, deleted, calls, notSessionVars>>

SessionNext ==
    \/ \E r \in Slots : StartRequest(r)
    \/ \E r \in Slots : Lock(r)
    \/ \E r \in Slots : RLock(r)
    \/ \E r \in Slots : CreateSessionReturn(r)
    \/ \E r \in Slots : RunPipeline(r)
    \/ \E r \in Slots : WriteValues(r)
    \/ \E r \in Slots : WriteQuestions(r)
    \/ \E r \in Slots : GetSessionReturn(r)
    \/ \E r \in Slots : ReadValues(r)
    \/ \E r \in Slots : ReadQuestions(r)
    \/ \E r \in Slots : UpdateSessionReturn(r)
    \/ \E r \in Slots : DeleteSessionReturn(r)
    \/ TimePasses

SpecSession == SessionInit /\ [][SessionNext]_vars

(***************************************************************************)
(* SpecProcess: POST /api/charts/process requests on one Manager and one   *)
(* catalog.                                                                *)
(***************************************************************************)
ProcessNext ==
    \/ \E r \in Slots : StartRepositoryRequest(r)
    \/ \E r \in Slots : PullChartReturn(r)
    \/ \E r \in Slots : Lock(r)
    \/ \E r \in Slots : CreateSessionReturn(r)
    \/ \E r \in Slots : RunPipeline(r)
    \/ \E r \in Slots : WriteValues(r)
    \/ \E r \in Slots : WriteQuestions(r)
    \/ TimePasses

SpecProcess == SessionInit /\ [][ProcessNext]_vars

\* sync.RWMutex of Go: a writer that has called Lock keeps later RLock calls
\* waiting until it has held and released the lock; r counts the read locks
\* each caller holds
RepoUnlocked == [w |-> 0, pending |-> 0, r |-> [t \in Slots |-> 0]]

(***************************************************************************)
(* SpecRepo: calls on one RepositoryManager, interleaved at the lock       *)
(* operations.                                                             *)
(***************************************************************************)
RepoOps == {"AddRepository", "Handlers.AddRepository", "RemoveRepository",
            "ListRepositories", "SearchCharts", "GetRepositoryCharts"}

RepoIdleCall ==
    [op |-> "none", pc |-> "idle", name |-> "", url |-> EmptyRef,
     auth |-> NilAuth, err |-> "", repos |-> {}]

RepoInit ==
    /\ repositories \in {EmptyMap, DefaultRepositories}
    /\ authCache = EmptyMap
    /\ rmutex = RepoUnlocked
    /\ rreq = [t \in Slots |-> RepoIdleCall]
    /\ rlast = RepoIdleCall
    /\ rcalls = 0
    /\ NotRepoIdle

\* the call of slot t returns: its slot is free again
RepoReturn(t, err, repos) ==
    /\ rlast' = [rreq[t] EXCEPT !.pc = "done", !.err = err, !.repos = repos]
    /\ rreq' = [rreq EXCEPT ![t] = RepoIdleCall]

\* a call arrives and reaches its first lock operation
RepoStart(t) ==
    /\ rreq[t].pc = "idle"
    /\ \A k \in Slots : k < t => rreq[k].pc # "idle"
    /\ rcalls < MaxCalls
    /\ \E op \in RepoOps, name \in RepoNames, url \in RepoURLs,
          auth \in {NilAuth, UserAuth} :
          rreq' = [rreq EXCEPT ![t] =
                    [RepoIdleCall EXCEPT
                        !.op = op,
                        !.pc = CASE op \in {"AddRepository", "Handlers.AddRepository",
                                            "RemoveRepository"} -> "Lock"
                                 [] op = "SearchCharts" -> "SearchCharts.RLock"
                                 [] OTHER -> "RLock",
                        !.name = IF op = "ListRepositories" THEN "" ELSE name,
                        !.url = IF op \in {"AddRepository", "Handlers.AddRepository"}
                                THEN url ELSE EmptyRef,
                        !.auth = IF op = "Handlers.AddRepository"
                                 THEN auth ELSE NilAuth]]
    /\ rcalls' = rcalls + 1
    /\ UNCHANGED <<repositories, authCache, rmutex, rlast, notRepoVars>>

\* rm.mutex.Lock(), first half: the writer is announced, which needs no
\* other writer to be announced or holding
RepoLockAnnounce(t) ==
    /\ rreq[t].pc = "Lock"
    /\ rmutex.w = 0 /\ rmutex.pending = 0
    /\ rmutex' = [rmutex EXCEPT !.pending = t]
    /\ rreq' = [rreq EXCEPT ![t].pc = "Lock.wait"]
    /\ UNCHANGED <<repositories, authCache, rlast, rcalls, notRepoVars>>

\* rm.mutex.Lock(), second half: the readers have gone
RepoLockAcquire(t) ==
    /\ rreq[t].pc = "Lock.wait"
    /\ \A k \in Slots : rmutex.r[k] = 0
    /\ rmutex' = [rmutex EXCEPT !.pending = 0, !.w = t]
    /\ rreq' = [rreq EXCEPT ![t].pc = "locked"]
    /\ UNCHANGED <<repositories, authCache, rlast, rcalls, notRepoVars>>

\* rm.mutex.RLock(): in ListRepositories, in GetRepositoryCharts, and in
\* SearchCharts, whoever calls it
RepoRLock(t) ==
    /\ rreq[t].pc \in {"RLock", "SearchCharts.RLock"}
    /\ rmutex.w = 0 /\ rmutex.pending = 0
    /\ rmutex' = [rmutex EXCEPT !.r[t] = @ + 1]
    /\ rreq' = [rreq EXCEPT ![t].pc = IF @ = "RLock" THEN "rlocked"
                                      ELSE "SearchCharts"]
    /\ UNCHANGED <<repositories, authCache, rlast, rcalls, notRepoVars>>

\* the rest of AddRepositoryWithAuth, called by AddRepository or by the
\* handler, which passes the type it derived from the URL
AddRepositoryReturn(t) ==
    /\ rreq[t].pc = "locked"
    /\ rreq[t].op \in {"AddRepository", "Handlers.AddRepository"}
    /\ LET c == rreq[t]
           a == IF c.op = "AddRepository"
                THEN AddRepository(repositories, authCache, c.name, c.url, now)
                ELSE AddRepositoryWithAuth(repositories, authCache, c.name, c.url,
                        "", IF hasOCIPrefix(c.url) THEN "oci" ELSE "http",
                        c.auth, now)
       IN /\ repositories' = a.repositories
          /\ authCache' = a.authCache
          /\ RepoReturn(t, a.err, {})
    /\ rmutex' = [rmutex EXCEPT !.w = 0]
    /\ UNCHANGED <<rcalls, notRepoVars>>

\* the rest of RemoveRepository
RemoveRepositoryReturn(t) ==
    /\ rreq[t].pc = "locked"
    /\ rreq[t].op = "RemoveRepository"
    /\ LET d == RemoveRepository(repositories, rreq[t].name) IN
          /\ repositories' = d.repositories
          /\ RepoReturn(t, d.err, {})
    /\ rmutex' = [rmutex EXCEPT !.w = 0]
    /\ UNCHANGED <<authCache, rcalls, notRepoVars>>

\* the rest of ListRepositories
ListRepositoriesReturn(t) ==
    /\ rreq[t].pc = "rlocked"
    /\ rreq[t].op = "ListRepositories"
    /\ RepoReturn(t, "none", ListRepositories(repositories))
    /\ rmutex' = [rmutex EXCEPT !.r[t] = @ - 1]
    /\ UNCHANGED <<repositories, authCache, rcalls, notRepoVars>>

\* GetRepositoryCharts after its RLock: the lookup, then the error return or
\* the call of SearchCharts with the read lock still held
GetRepositoryChartsLookup(t) ==
    /\ rreq[t].pc = "rlocked"
    /\ rreq[t].op = "GetRepositoryCharts"
    /\ IF rreq[t].name \notin DOMAIN repositories
       THEN /\ RepoReturn(t, "repository not found", {})
            /\ rmutex' = [rmutex EXCEPT !.r[t] = @ - 1]
       ELSE /\ rreq' = [rreq EXCEPT ![t].pc = "SearchCharts.RLock"]
            /\ UNCHANGED <<rmutex, rlast>>
    /\ UNCHANGED <<repositories, authCache, rcalls, notRepoVars>>

\* the rest of SearchCharts (the charts it finds are not modelled) with its
\* RUnlock and, under GetRepositoryCharts, that function's RUnlock
SearchChartsReturn(t) ==
    /\ rreq[t].pc = "SearchCharts"
    /\ RepoReturn(t, "none", {})
    /\ rmutex' = [rmutex EXCEPT !.r[t] = 0]
    /\ UNCHANGED <<repositories, authCache, rcalls, notRepoVars>>

RepoNext ==
    \/ \E t \in Slots : RepoStart(t)
    \/ \E t \in Slots : RepoLockAnnounce(t)
    \/ \E t \in Slots : RepoLockAcquire(t)
    \/ \E t \in Slots : RepoRLock(t)
    \/ \E t \in Slots : AddRepositoryReturn(t)
    \/ \E t \in Slots : RemoveRepositoryReturn(t)
    \/ \E t \in Slots : ListRepositoriesReturn(t)
    \/ \E t \in Slots : GetRepositoryChartsLookup(t)
    \/ \E t \in Slots : SearchChartsReturn(t)

SpecRepo == RepoInit /\ [][RepoNext]_vars

\* every call that can take a step takes one in the end: the goroutines are
\* scheduled
SpecRepoFair == SpecRepo /\ WF_vars(RepoNext)

(***************************************************************************)
(* Properties of mergeQuestions (SpecMerge).                               *)
(***************************************************************************)
VariablesOf(qs) == {qs[i].Variable : i \in 1..Len(qs)}

DistinctVariables(qs) ==
    \A i, j \in 1..Len(qs) : i # j => qs[i].Variable # qs[j].Variable

\* C1: the result of mergeQuestions is the existing list, every question
\* unchanged and in its order, followed by the questions of defaults whose
\* variable is not one of existing, in defaults' order.
C1_MergeIsExistingThenNewDefaults ==
    mpc = "return" =>
        LET isNew(q) == q.Variable \notin VariablesOf(existing.Questions)
        IN merged.Questions =
               existing.Questions \o SelectSeq(defaults.Questions, isNew)

\* C1 witness: a merge where defaults holds a different question with the
\* variable of an existing one and also a question with a new variable.
C1_Witness ==
    /\ mpc = "return"
    /\ \E i \in 1..Len(existing.Questions), j \in 1..Len(defaults.Questions) :
          /\ existing.Questions[i].Variable = defaults.Questions[j].Variable
          /\ existing.Questions[i] # defaults.Questions[j]
    /\ \E k \in 1..Len(defaults.Questions) :
          defaults.Questions[k].Variable \notin VariablesOf(existing.Questions)
    /\ Len(merged.Questions) > Len(existing.Questions)

\* C2 as stated: for every pair of inputs the merged list has no two
\* questions with the same variable.
C2_MergedVariablesDistinct ==
    mpc = "return" => DistinctVariables(merged.Questions)

\* C2 as amended: when neither existing nor defaults holds two questions with
\* the same variable, the merged list holds none either.
C2_MergedDistinctWhenInputsDistinct ==
    (/\ mpc = "return"
     /\ DistinctVariables(existing.Questions)
     /\ DistinctVariables(defaults.Questions))
        => DistinctVariables(merged.Questions)

\* C2 witness: duplicate-free inputs that share a variable, merged.
C2_Witness ==
    /\ mpc = "return"
    /\ DistinctVariables(existing.Questions)
    /\ DistinctVariables(defaults.Questions)
    /\ VariablesOf(existing.Questions) \cap VariablesOf(defaults.Questions) # {}
    /\ Len(merged.Questions) > Len(existing.Questions)

\* C17: merging the result of mergeQuestions(existing, defaults) with the
\* same defaults once more gives that result again.
C17_MergeIdempotent ==
    mpc = "again" => remerged = merged

\* C17 witness: the first merge appended a default, the second one nothing
C17_Witness ==
    /\ mpc = "again"
    /\ Len(merged.Questions) > Len(existing.Questions)
    /\ defaults.Questions # <<>>
    /\ remerged = merged

(***************************************************************************)
(* Properties of hasNestedKey and generateDefaultQuestions (SpecSynth).    *)
(***************************************************************************)
IsMapWithKey(data, k1, k2) ==
    /\ k1 \in DOMAIN data
    /\ data[k1].kind = "map"
    /\ k2 \in DOMAIN data[k1].m

\* C3: for every tree in which service is a mapping with a key type, the
\* defaults are exactly name, namespace and the service.type enum question.
C3_ServiceTypeGivesThreeQuestions ==
    (spc = "generated" /\ IsMapWithKey(values, "service", "type")) =>
        /\ Len(generated.Questions) = 3
        /\ generated.Questions[1].Variable = "name"
        /\ generated.Questions[2].Variable = "namespace"
        /\ generated.Questions[3].Variable = "service.type"
        /\ generated.Questions[3].Type = "enum"
        /\ generated.Questions[3].Options = <<"ClusterIP", "NodePort", "LoadBalancer">>
        /\ generated.Questions[3].Default = StrDefault("ClusterIP")
        /\ generated.Questions[3].Group = "Networking"

\* the path rule of C4: every segment but the last resolves to a nested
\* mapping and the last segment is a key of the mapping reached
RECURSIVE PathExists(_, _, _)
PathExists(current, ks, i) ==
    IF i = Len(ks) THEN ks[i] \in DOMAIN current
    ELSE /\ ks[i] \in DOMAIN current
         /\ current[ks[i]].kind = "map"
         /\ PathExists(current[ks[i]].m, ks, i + 1)

\* C4: hasNestedKey returns true exactly when the path exists, whatever the
\* type of the value under the last key.
C4_HasNestedKeyIffPathExists ==
    spc = "probed" => (found <=> PathExists(values, keys, 1))

\* C5: the defaults start with the name question and the namespace question
\* (string, required, group General) and no later question has one of these
\* two variables.
C5_NameThenNamespaceFirst ==
    spc = "generated" =>
        LET qs == generated.Questions
        IN /\ Len(qs) >= 2
           /\ qs[1].Variable = "name"
           /\ qs[2].Variable = "namespace"
           /\ \A i \in 1..2 :
                 qs[i].Type = "string" /\ qs[i].Required /\ qs[i].Group = "General"
           /\ \A i \in 3..Len(qs) : qs[i].Variable \notin {"name", "namespace"}

\* C5 witness: defaults generated for a tree in which a pattern matched.
C5_Witness ==
    /\ spc = "generated"
    /\ Len(generated.Questions) > 2
    /\ "service" \in DOMAIN values

\* C18: with both patterns in the tree the defaults are exactly name,
\* namespace, service.type and persistence.storageClass (type string, group
\* Storage), whatever the value under storageClass; with only
\* persistence.storageClass they are exactly name, namespace and
\* persistence.storageClass.
C18_BothPatternsAndStorageOnly ==
    spc = "generated" =>
        LET qs == generated.Questions
            vs == [i \in 1..Len(qs) |-> qs[i].Variable]
            service == IsMapWithKey(values, "service", "type")
            storage == IsMapWithKey(values, "persistence", "storageClass")
        IN /\ (service /\ storage) =>
                 /\ vs = <<"name", "namespace", "service.type",
                           "persistence.storageClass">>
                 /\ qs[4].Type = "string"
                 /\ qs[4].Group = "Storage"
           /\ (~service /\ storage) =>
                 vs = <<"name", "namespace", "persistence.storageClass">>

(***************************************************************************)
(* Properties of extractTarGz (SpecExtract).                               *)
(***************************************************************************)
StrictlyBelow(p, d) == Len(p) > Len(d) /\ SubSeq(p, 1, Len(d)) = d

WrittenByExtract == UNION {xlog[i].touched : i \in 1..Len(xlog)}

\* C6 as stated: extractTarGz creates or writes only at strict descendants of
\* dest, and writes nothing for an entry that resolves elsewhere.
C6_WritesOnlyStrictlyBelowDest ==
    /\ \A q \in WrittenByExtract : StrictlyBelow(q, xdest)
    /\ \A i \in 1..Len(xlog) :
          ~StrictlyBelow(Join(xdest, xlog[i].header.Name), xdest)
              => xlog[i].touched = {}

\* C6 as amended: extractTarGz creates or writes only dest itself and strict
\* descendants of dest, only regular files and directories, and writes
\* nothing for an entry that does not resolve to a strict descendant of dest.
C6_WritesOnlyDestAndBelow ==
    /\ \A q \in WrittenByExtract : q = xdest \/ StrictlyBelow(q, xdest)
    /\ \A q \in DOMAIN xfs : ~(q = xdest \/ StrictlyBelow(q, xdest)) =>
          (Exists(BaseFS, q) /\ xfs[q] = BaseFS[q])
    /\ \A i \in 1..Len(xlog) :
          ~StrictlyBelow(Join(xdest, xlog[i].header.Name), xdest)
              => xlog[i].touched = {}

\* C6 witness: an archive with an entry named with ".." that was skipped and
\* an entry that was written below dest, extracted to the end.
C6_Witness ==
    /\ xpc = "return"
    /\ \E i \in 1..Len(xlog) :
          /\ xlog[i].header.Name[1] = ".."
          /\ xlog[i].header.Typeflag = "reg"
          /\ xlog[i].touched = {}
    /\ \E i \in 1..Len(xlog) :
          \E q \in xlog[i].touched : StrictlyBelow(q, xdest) /\ xfs[q].kind = "file"

(***************************************************************************)
(* Properties of ProcessChart (Spec).                                      *)
(***************************************************************************)
TreeGone(dir) == \A q \in DOMAIN fs : ~IsPrefix(dir, q)

\* C7: once downloadAndExtract has returned a directory, ProcessChart
\* removes that directory tree exactly once, at its return and not before,
\* on the success path and on the values-parse error path, and the
\* directory does not exist when ProcessChart has returned.
C7_ChartDirRemovedOnceAtReturn ==
    \A i \in procs :
        /\ (frame[i].pc = "returned" /\ frame[i].resolveErr = "none") =>
              (frame[i].removals = 1 /\ TreeGone(frame[i].chartDir))
        /\ frame[i].pc \in {"resolved", "parsed", "synthesized"} =>
              frame[i].removals = 0

\* C7 witness: ProcessChart returned the values-parse error after
\* downloadAndExtract had materialized the directory.
C7_Witness ==
    \E i \in procs :
        /\ frame[i].pc = "returned"
        /\ frame[i].resolveErr = "none"
        /\ frame[i].result.err = "values"
        /\ frame[i].chartDir \in frame[i].made

\* C8: when ProcessChart returns an error, nothing that the invocation
\* created below the temporary directory is left.
C8_NoResidueOnError ==
    \A i \in procs :
        (frame[i].pc = "returned" /\ frame[i].result.err # "none") =>
            \A q \in frame[i].made : ~Exists(fs, q)

\* C9: ProcessChart returns an error exactly when the resolution or the
\* loading of the values document failed, and then nil values and an empty
\* question set; without an existing questions document it returns the
\* synthesized defaults, with a parsed one the existing questions followed
\* by the defaults that are new.
C9_ErrorsAndResults ==
    \A i \in procs :
        frame[i].pc = "returned" =>
            LET f == frame[i]
                defs == generateDefaultQuestions(f.values).Questions
                old == f.parsed.questions.Questions
                isNew(q) == q.Variable \notin VariablesOf(old)
            IN /\ (f.result.err # "none") <=>
                      (f.resolveErr # "none" \/ f.valuesErr \notin {"none", "pending"})
               /\ f.result.err # "none" =>
                      (f.result.values = NilValues /\ f.result.questions = Questions(<<>>))
               /\ f.result.err = "none" =>
                      /\ f.result.values = Values(f.values)
                      /\ f.parsed.err = "notfound" => f.result.questions.Questions = defs
                      /\ f.parsed.err = "none" =>
                            f.result.questions.Questions = old \o SelectSeq(defs, isNew)

\* C9 witness: a chart with a values document and a questions document was
\* processed and a default was dropped for an existing question.
C9_Witness ==
    \E i \in procs :
        /\ frame[i].pc = "returned"
        /\ frame[i].result.err = "none"
        /\ frame[i].parsed.err = "none"
        /\ Len(generateDefaultQuestions(frame[i].values).Questions) = 3
        /\ Len(frame[i].result.questions.Questions) = 4

MalformedRefs == {EmptyRef, NotAURLRef, FileRef, BareOCIRef}

\* C10: for an empty or malformed reference ProcessChart returns an error,
\* and never fetches, runs helm or materializes a chart directory.
C10_MalformedRefRejected ==
    \A i \in procs :
        frame[i].chartURL \in MalformedRefs =>
            /\ frame[i].fetches = 0
            /\ frame[i].toolRuns = 0
            /\ frame[i].made = {}
            /\ frame[i].pc \in {"call", "returned"}
            /\ frame[i].pc = "returned" => frame[i].result.err # "none"


(***************************************************************************)
(* Properties of findFile (SpecFind).                                      *)
(***************************************************************************)
\* the paths of the tree under path in the order of a lexical depth-first
\* traversal, a directory before its entries
RECURSIVE Preorder(_, _)
RECURSIVE PreorderAll(_, _, _)
Preorder(tree, path) ==
    IF IsDir(tree, path)
    THEN <<path>> \o PreorderAll(tree, SortedByName(Children(tree, path)), 1)
    ELSE <<path>>

PreorderAll(tree, paths, i) ==
    IF i > Len(paths) THEN <<>>
    ELSE Preorder(tree, paths[i]) \o PreorderAll(tree, paths, i + 1)

FirstNamed(tree, dir, filename) ==
    LET order == Preorder(tree, dir)
        hits == {k \in 1..Len(order) : Last(order[k]) = filename}
    IN IF hits = {} THEN NoPath
       ELSE order[CHOOSE k \in hits : \A l \in hits : k <= l]

\* C11: findFile returns the first entry named filename met in the lexical
\* depth-first traversal of the tree under dir, and the empty string when no
\* entry has that name.
C11_FindFileReturnsFirstMatch ==
    wpc = "returned" => wresult = FirstNamed(wfs, wdir, wname)


(***************************************************************************)
(* Properties of the session store and the handlers (SpecSession).         *)
(***************************************************************************)
\* C12: whenever the Values or the Questions of a session held by the
\* manager change, its UpdatedAt is set to the time of the change.
C12_MutationSetsUpdatedAt ==
    [][\A s \in sessions :
          (heap'[s].Values # heap[s].Values \/ heap'[s].Questions # heap[s].Questions)
              => heap'[s].UpdatedAt = now']_vars

\* C13: no request is about to assign Values or Questions of a session while
\* another request is about to read that field through its session pointer.
C13_NoWriteOverlapsRead ==
    \A w, r \in Slots : \A s \in DOMAIN heap : \A field \in {"Values", "Questions"} :
        w # r => ~(Writes(w, s, field) /\ Reads(r, s, field))

\* C15: GetSession(id) succeeds exactly when id was returned by CreateSession
\* and not deleted since; only DeleteSession(id) removes the session id, and
\* DeleteSession on an absent id returns an error and removes nothing.
C15_SessionLifecycle ==
    /\ [](sessions = created \ deleted)
    /\ [][/\ \A r \in Slots :
                (req[r].pc = "GetSession" /\ req'[r].pc # "GetSession")
                    => (req'[r].pc \in {"readValues", "marshal"}
                            <=> req[r].id \in created \ deleted)
          /\ \A s \in sessions \ sessions' :
                \E r \in Slots : /\ req[r].pc = "DeleteSession"
                                 /\ req[r].id = s
                                 /\ req'[r].pc = "idle"
                                 /\ last'.resp.error = "none"
          /\ \A r \in Slots :
                (req[r].pc = "DeleteSession" /\ req'[r].pc = "idle"
                    /\ req[r].id \notin sessions)
                    => /\ sessions' = sessions
                       /\ heap' = heap
                       /\ last'.resp.error = "session not found"]_vars

\* a lookup of a session that was created and then deleted has been answered
\* with not found, and a delete of an absent id has failed before
C15_Witness ==
    /\ last.kind \in {"GetChart", "GetQuestionsYAML"}
    /\ last.id \in deleted
    /\ last.resp.status = 404


(***************************************************************************)
(* Properties of concurrent ProcessChart invocations (SpecConcurrent).     *)
(***************************************************************************)
\* the invocation holds a resolved directory it has not removed yet
Holding(i) == frame[i].pc \in {"resolved", "parsed", "synthesized"}

\* C14: two invocations that both hold a resolved directory hold distinct
\* directories, and neither created or wrote a path the other did.
C14_InvocationsShareNoDirectory ==
    \A i, j \in procs :
        (i # j /\ Holding(i) /\ Holding(j))
            => /\ frame[i].chartDir # frame[j].chartDir
               /\ frame[i].made \cap frame[j].made = {}


(***************************************************************************)
(* Properties of the OCI fallback (Spec).                                  *)
(***************************************************************************)
\* references of the form oci://host/path/name[:version] whose chart name is x
MockableRefs == {OCIRef, OCIRefOther}

\* the directories createMockOCIChart may name for the chart name x
MockDirsOfX == {Append(TempDir, MockOCIName("x", t)) : t \in 1..clock}

NoValuesDocument(i) ==
    ~\E q \in DOMAIN fs : IsPrefix(frame[i].chartDir, q) /\ Last(q) = "values.yaml"

\* C19: loading the values from a resolved directory without a values
\* document gives the empty tree and no error, and for the empty tree (with
\* no questions document either) the questions are exactly name and namespace.
C19_NoValuesDocumentGivesEmptyTree ==
    /\ [][\A i \in procs :
            (frame[i].pc = "resolved" /\ NoValuesDocument(i)
                /\ frame'[i].pc # "resolved")
            => /\ frame'[i].pc = "parsed"
               /\ frame'[i].valuesErr = "none"
               /\ frame'[i].values = EmptyMap]_vars
    /\ [](\A i \in procs :
            (frame[i].pc \in {"synthesized", "returned"}
                /\ frame[i].result.err \in {"none", "pending"}
                /\ frame[i].values = EmptyMap
                /\ frame[i].parsed.err = "notfound")
            => frame[i].questions = Questions(<<NameQuestion, NamespaceQuestion>>))

\* C19 witness: a chart without values.yaml and without questions.yaml was
\* downloaded and processed
C19_Witness ==
    \E i \in procs :
        /\ frame[i].pc = "returned"
        /\ frame[i].fetches = 1
        /\ frame[i].result.err = "none"
        /\ frame[i].result.values = Values(EmptyMap)
        /\ frame[i].result.questions = Questions(<<NameQuestion, NamespaceQuestion>>)


(***************************************************************************)
(* Properties of the error text (Spec).  Handlers.ProcessChart answers a   *)
(* failed run with gin.H{"error": err.Error()}: the text of the error that *)
(* ProcessChart returned is the error text of the response.                *)
(***************************************************************************)
\* C20: the text of every error ProcessChart returns is made of literals of
\* the source (and the status line of the response) only: it holds neither
\* the chart reference, nor a local path, nor the output of helm, nor the
\* text of an underlying error.
C20_ErrorTextIsSanitized ==
    \A i \in procs :
        (frame[i].pc = "returned" /\ frame[i].result.err # "none") =>
            \A k \in 1..Len(frame[i].errText) :
                frame[i].errText[k].kind \in {"text", "status"}

(***************************************************************************)
(* Further properties of the session store (SpecSession).                  *)
(***************************************************************************)
\* C23: the session CreateSession has just made has CreatedAt equal to
\* UpdatedAt, an empty initialized Values map, an empty Questions list and
\* the ChartURL it was given, whatever the clock does while it runs.
C23_NewSessionIsFresh ==
    [][\A r \in Slots :
          (req[r].pc = "CreateSession" /\ req'[r].pc = "ProcessChart") =>
              LET s == heap'[req'[r].session] IN
                 /\ s.CreatedAt = s.UpdatedAt
                 /\ s.Values = Values(EmptyMap)
                 /\ s.Questions = Questions(<<>>)
                 /\ s.ChartURL = req[r].url]_vars

\* C26: UpdateSession(id, Q) on an id of the store sets that session's
\* Questions to Q and its UpdatedAt to a time not earlier than before, and
\* leaves its ID, ChartURL, Values and CreatedAt, every other session and the
\* set of ids as they were; on an id that is not in the store it returns an
\* error and leaves the whole store as it was.
C26_UpdateSessionFrame ==
    [][\A r \in Slots :
          (req[r].pc = "UpdateSession" /\ req'[r].pc # "UpdateSession") =>
              LET id == req[r].id IN
                 /\ sessions' = sessions
                 /\ DOMAIN heap' = DOMAIN heap
                 /\ IF id \in sessions
                    THEN /\ last'.resp.status = 200
                         /\ heap'[id].Questions = req[r].q
                         /\ heap'[id].UpdatedAt >= heap[id].UpdatedAt
                         /\ heap'[id].ID = heap[id].ID
                         /\ heap'[id].ChartURL = heap[id].ChartURL
                         /\ heap'[id].Values = heap[id].Values
                         /\ heap'[id].CreatedAt = heap[id].CreatedAt
                         /\ \A s \in DOMAIN heap \ {id} : heap'[s] = heap[s]
                    ELSE /\ last'.resp.status = 404
                         /\ heap' = heap]_vars

\* an UpdateChart was answered with 200 while the clock had advanced and the
\* store held another session too
C26_Witness ==
    /\ last.kind = "UpdateChart"
    /\ last.resp.status = 200
    /\ last.id \in sessions
    /\ heap[last.id].Questions = last.q
    /\ heap[last.id].UpdatedAt > heap[last.id].CreatedAt
    /\ \E s \in sessions : s # last.id

\* C25: under every interleaving, each CreateSession call adds one session
\* under an id no earlier call was given, carrying the chartURL of that call
\* and leaving the other sessions alone; every session of the store is found
\* under its own id; UpdateSession, GetSession and DeleteSession on an id of
\* the store take effect whatever runs beside them; and once every id has
\* been deleted the store is empty.
C25_ConcurrentCallsAllTakeEffect ==
    /\ [](\A s \in sessions : s \in DOMAIN heap /\ heap[s].ID = s)
    /\ [](created \subseteq deleted => sessions = {})
    /\ [][\A r \in Slots :
            /\ (req[r].pc = "CreateSession" /\ req'[r].pc = "ProcessChart") =>
                  LET id == req'[r].session IN
                     /\ id \notin created
                     /\ id \notin DOMAIN heap
                     /\ sessions' = sessions \cup {id}
                     /\ heap'[id].ID = id
                     /\ heap'[id].ChartURL = req[r].url
                     /\ \A s \in DOMAIN heap : heap'[s] = heap[s]
            /\ (req[r].pc = "UpdateSession" /\ req'[r].pc = "idle"
                    /\ req[r].id \in sessions) =>
                  /\ heap'[req[r].id].Questions = req[r].q
                  /\ last'.resp.status = 200
            /\ (req[r].pc = "GetSession" /\ req'[r].pc # "GetSession"
                    /\ req[r].id \in sessions) =>
                  req'[r].session = req[r].id
            /\ (req[r].pc = "DeleteSession" /\ req'[r].pc = "idle"
                    /\ req[r].id \in sessions) =>
                  sessions' = sessions \ {req[r].id}]_vars

\* two requests are in flight, each past its CreateSession call, with
\* different chart URLs
C25_Witness ==
    \E r1, r2 \in Slots :
        /\ r1 # r2
        /\ req[r1].pc = "ProcessChart"
        /\ req[r2].pc = "ProcessChart"
        /\ req[r1].session # req[r2].session
        /\ {req[r1].session, req[r2].session} \subseteq sessions
        /\ heap[req[r1].session].ChartURL # heap[req[r2].session].ChartURL

(***************************************************************************)
(* Further properties of ProcessChart (Spec).                              *)
(***************************************************************************)
\* C30: when the resolved directory holds a questions.yaml or questions.yml
\* that cannot be read or parsed, ProcessChart does not return the
\* synthesized defaults without an error as if there were no such document.
C30_UnreadableQuestionsNotSwallowed ==
    \A i \in procs :
        (frame[i].pc = "returned" /\ frame[i].parsed.err \in {"read", "yaml"}) =>
            ~ /\ frame[i].result.err = "none"
              /\ frame[i].result.questions = generateDefaultQuestions(frame[i].values)

(***************************************************************************)
(* Properties of the chart-processing handlers (SpecSession).              *)
(***************************************************************************)
\* C28: a chart-processing request answered with an error leaves no session
\* of its own in the store.
C28_FailedRequestLeavesNoSession ==
    [][\A r \in Slots :
          (/\ req[r].kind \in {"ProcessChart", "ProcessChartFromRepository"}
           /\ req[r].pc # "idle"
           /\ req'[r].pc = "idle"
           /\ last'.resp.status >= 400) =>
              (req[r].session = NoSession \/ req[r].session \notin sessions')]_vars

(***************************************************************************)
(* Properties of the RepositoryManager (SpecRepo, SpecRepoFair).           *)
(***************************************************************************)
\* C24: when AddRepository(name, url) returns, the catalog holds under name
\* a repository with that name and url whose Type is "oci" if the url starts
\* with oci:// and "http" otherwise; and ListRepositories returns the
\* repositories of the catalog.
C24_AddRepositoryDetectsType ==
    [][\A t \in Slots :
          /\ (rreq[t].op = "AddRepository" /\ rreq[t].pc = "locked"
                  /\ rreq'[t].pc = "idle") =>
                /\ rreq[t].name \in DOMAIN repositories'
                /\ repositories'[rreq[t].name].Name = rreq[t].name
                /\ repositories'[rreq[t].name].URL = rreq[t].url
                /\ repositories'[rreq[t].name].Type =
                      IF hasOCIPrefix(rreq[t].url) THEN "oci" ELSE "http"
          /\ (rreq[t].op = "ListRepositories" /\ rreq[t].pc = "rlocked"
                  /\ rreq'[t].pc = "idle") =>
                rlast'.repos = {repositories[n] : n \in DOMAIN repositories}]_vars

\* C27: every GetRepositoryCharts call returns, whatever AddRepository,
\* AddRepositoryWithAuth and RemoveRepository calls run beside it.
C27_GetRepositoryChartsReturns ==
    \A t \in Slots :
        (rreq[t].op = "GetRepositoryCharts" /\ rreq[t].pc # "idle")
            ~> (rreq[t].pc = "idle")

\* C29: ProcessChartFromRepository resolves the repository before it touches
\* the session store: for a repository name that is not in the catalog
\* PullChart returns an error and the handler answers 500 without a
\* CreateSession call or a pipeline run; CreateSession is reached only with
\* the chart URL PullChart returned.
C29_PullChartBeforeCreateSession ==
    /\ [](\A r \in Slots :
            (req[r].kind = "ProcessChartFromRepository"
                /\ req[r].pc \notin {"idle", "PullChart"}) =>
                    /\ req[r].repository \in DOMAIN repositories
                    /\ req[r].url = PullChart(repositories, req[r].repository).chartURL)
    /\ [][\A r \in Slots :
            (req[r].pc = "PullChart" /\ req'[r].pc # "PullChart"
                /\ req[r].repository \notin DOMAIN repositories) =>
                    /\ req'[r].pc = "idle"
                    /\ last'.resp.status = 500
                    /\ last'.session = NoSession
                    /\ last'.out = NoResult
                    /\ heap' = heap
                    /\ sessions' = sessions
                    /\ created' = created]_vars

\* a request for a repository that is not in the catalog was answered 500
C29_Witness ==
    /\ last.kind = "ProcessChartFromRepository"
    /\ last.repository = "non-existent"
    /\ last.resp.status = 500
    /\ last.session = NoSession

(***************************************************************************)
(* C21: the YAML round trip of a question set.                             *)
(***************************************************************************)
\* the keys of a written question are variable, label and the fields that
\* are set
C21_OmitsUnsetFields(entry, q) ==
    /\ {"variable", "label"} \subseteq DOMAIN entry
    /\ ("description" \in DOMAIN entry) <=> (q.Description # "")
    /\ ("type" \in DOMAIN entry) <=> (q.Type # "")
    /\ ("required" \in DOMAIN entry) <=> q.Required
    /\ ("default" \in DOMAIN entry) <=> ~q.Default.isNil
    /\ ("group" \in DOMAIN entry) <=> (q.Group # "")
    /\ ("options" \in DOMAIN entry) <=> (q.Options # <<>>)
    /\ ("show_if" \in DOMAIN entry) <=> (q.ShowIf # "")
    /\ ("subquestions" \in DOMAIN entry) <=> (q.SubQuestions # <<>>)
    /\ DOMAIN entry \subseteq {"variable", "label", "description", "type", "required",
                               "default", "group", "options", "show_if", "subquestions"}

C21_DocumentOmitsUnsetFields ==
    /\ Len(ydoc.questions) = Len(yq.Questions)
    /\ \A i \in 1..Len(yq.Questions) :
          /\ C21_OmitsUnsetFields(ydoc.questions[i], yq.Questions[i])
          /\ \A j \in 1..Len(yq.Questions[i].SubQuestions) :
                C21_OmitsUnsetFields(ydoc.questions[i]["subquestions"].items[j],
                                     yq.Questions[i].SubQuestions[j])

\* q with every float64 default of a whole value replaced by the int of the
\* same value
RECURSIVE C21_WholeFloatAsInt(_)
C21_WholeFloatAsInt(q) ==
    [q EXCEPT
       !.Default = IF @.kind = "float64" /\ @.val \in {"0", "1", "3"}
                   THEN TypedDefault("int", @.val) ELSE @,
       !.SubQuestions = [i \in 1..Len(@) |-> C21_WholeFloatAsInt(@[i])]]

C22_GetAnswers(r) ==
    /\ req[r].kind \in {"GetChart", "GetQuestionsYAML"}
    /\ req[r].pc \in {"readQuestions", "marshal"}
    /\ req'[r].pc = "idle"

\* request r is a PUT that is answered
C22_PutAnswers(r) ==
    /\ req[r].kind = "UpdateChart"
    /\ req[r].pc = "UpdateSession"
    /\ req'[r].pc = "idle"

\* what a GET that read s answers when the questions of s are qs
C22_Returns(r, s, qs) ==
    /\ last'.resp.status = 200
    /\ ~last'.resp.torn
    /\ last'.resp.questions = qs
    /\ req[r].kind = "GetChart" => last'.resp.sessionID = s
    /\ req[r].kind = "GetQuestionsYAML" => last'.resp.body = MarshalYAML(qs)

\* C22: a PUT on a stored id is answered 200 and stores its question set; the
\* questions of a stored session then change only by another answered PUT on
\* its id (or by the POST that created it, which has not answered the id to
\* anyone yet); a GET that no PUT on the id overlaps returns the stored
\* question set, as JSON or as its YAML, so the Q of a PUT answered just
\* before; GET and PUT on an id not in the store answer 404 and change nothing.
C22_ReadYourWrites ==
    [][/\ \A r \in Slots :
            (C22_PutAnswers(r) /\ req[r].id \in sessions)
                => /\ last'.resp.status = 200
                   /\ heap'[req[r].id].Questions = req[r].q
       /\ \A s \in sessions :
            heap'[s].Questions # heap[s].Questions
                => \E r \in Slots :
                      \/ C22_PutAnswers(r) /\ req[r].id = s
                      \/ /\ req[r].kind = "ProcessChart"
                         /\ req[r].session = s
                         /\ req[r].pc = "writeQuestions"
       /\ \A r \in Slots :
            (C22_GetAnswers(r) /\ ~Overlapped(r, req[r].session, "Questions"))
                => /\ C22_Returns(r, req[r].session, heap[req[r].session].Questions)
                   /\ heap' = heap
                   /\ (/\ last.kind = "UpdateChart"
                       /\ last.resp.status = 200
                       /\ last.id = req[r].session)
                          => C22_Returns(r, req[r].session, last.q)
       /\ \A r \in Slots :
            (/\ req[r].kind \in {"GetChart", "GetQuestionsYAML", "UpdateChart"}
             /\ req[r].pc \in {"GetSession", "UpdateSession"}
             /\ req'[r].pc # req[r].pc
             /\ req[r].id \notin sessions)
                => /\ last'.resp.status = 404
                   /\ req'[r].pc = "idle"
                   /\ heap' = heap
                   /\ sessions' = sessions]_vars

\* GET /api/chart/:session_id/q has returned the YAML of the question set of
\* TestUpdateSession, which only a PUT stores
C22_Witness ==
    /\ last.kind = "GetQuestionsYAML"
    /\ last.resp.status = 200
    /\ last.id \in sessions
    /\ heap[last.id].Questions = Questions(<<TestVarQuestion>>)
    /\ last.resp.body = MarshalYAML(Questions(<<TestVarQuestion>>))

====
